---------------------------- MODULE Spec2Model ----------------------------
(***************************************************************************)
(* A model of migrate.py, the SQLite -> MySQL/MariaDB migrator.            *)
(*                                                                         *)
(* Python strings are modelled as sequences of one-character strings, so   *)
(* that the substring tests ("INT" in mysql_type), upper(), strip(),       *)
(* replace() and the f-string renderings of the source are computed the    *)
(* way the source computes them.                                           *)
(***************************************************************************)
EXTENDS Integers, Sequences, FiniteSets, TLC

(***************************************************************************)
(* String primitives (Python str methods used by the source).             *)
(***************************************************************************)

\* Python's None, for values that are either None or a string
\* (a tuple holding a multi-character element is never a modelled string).
None == <<"None">>

\* the backtick character (the one character a TLA+ string cannot hold)
Backtick == "BACKTICK"

LowerLetters ==
    <<"a", "b", "c", "d", "e", "f", "g", "h", "i", "j", "k", "l", "m",
      "n", "o", "p", "q", "r", "s", "t", "u", "v", "w", "x", "y", "z">>

UpperLetters ==
    <<"A", "B", "C", "D", "E", "F", "G", "H", "I", "J", "K", "L", "M",
      "N", "O", "P", "Q", "R", "S", "T", "U", "V", "W", "X", "Y", "Z">>

DigitChars ==
    <<"0", "1", "2", "3", "4", "5", "6", "7", "8", "9">>

\* str.upper() on one character
UpperChar(c) ==
    IF \E k \in 1..26 : LowerLetters[k] = c
    THEN UpperLetters[CHOOSE k \in 1..26 : LowerLetters[k] = c]
    ELSE c

\* str.lower() on one character
LowerChar(c) ==
    IF \E k \in 1..26 : UpperLetters[k] = c
    THEN LowerLetters[CHOOSE k \in 1..26 : UpperLetters[k] = c]
    ELSE c

\* s.upper()
Upper(s) == [k \in 1..Len(s) |-> UpperChar(s[k])]

\* s.lower()
Lower(s) == [k \in 1..Len(s) |-> LowerChar(s[k])]

\* sub in s
Contains(sub, s) ==
    \E k \in 1..(Len(s) - Len(sub) + 1) : SubSeq(s, k, k + Len(sub) - 1) = sub

\* s.startswith(prefix)
StartsWith(s, prefix) ==
    /\ Len(prefix) <= Len(s)
    /\ SubSeq(s, 1, Len(prefix)) = prefix

IsDigitChar(c) == \E d \in 1..10 : DigitChars[d] = c

DigitValue(c) == (CHOOSE d \in 1..10 : DigitChars[d] = c) - 1

\* int(s) for a string of decimal digits
RECURSIVE StrToInt(_)
StrToInt(s) ==
    IF Len(s) = 0 THEN 0
    ELSE 10 * StrToInt(SubSeq(s, 1, Len(s) - 1)) + DigitValue(s[Len(s)])

\* str(n) for n >= 0
RECURSIVE IntToStr(_)
IntToStr(n) ==
    IF n < 10 THEN <<DigitChars[n + 1]>>
    ELSE IntToStr(n \div 10) \o <<DigitChars[(n % 10) + 1]>>

\* min(a, b)
Min(a, b) == IF a <= b THEN a ELSE b

\* s.replace(old, new), leftmost non-overlapping occurrences
RECURSIVE Replace(_, _, _)
Replace(s, old, new) ==
    IF Len(s) < Len(old) THEN s
    ELSE IF SubSeq(s, 1, Len(old)) = old
         THEN new \o Replace(SubSeq(s, Len(old) + 1, Len(s)), old, new)
         ELSE <<s[1]>> \o Replace(SubSeq(s, 2, Len(s)), old, new)

\* sep.join(parts)
RECURSIVE Join(_, _)
Join(sep, parts) ==
    IF Len(parts) = 0 THEN <<>>
    ELSE IF Len(parts) = 1 THEN parts[1]
    ELSE parts[1] \o sep \o Join(sep, Tail(parts))

(***************************************************************************)
(* Keywords and target type names (module constants of migrate.py).       *)
(***************************************************************************)

K_TINYINT ==
    <<"T", "I", "N", "Y", "I", "N", "T">>
K_SMALLINT ==
    <<"S", "M", "A", "L", "L", "I", "N", "T">>
K_MEDIUMINT ==
    <<"M", "E", "D", "I", "U", "M", "I", "N", "T">>
K_BIGINT ==
    <<"B", "I", "G", "I", "N", "T">>
K_INT ==
    <<"I", "N", "T">>
T_BIGINT_UNSIGNED ==
    <<"B", "I", "G", "I", "N", "T", " ", "U", "N", "S", "I", "G", "N", "E", "D">>
T_INT_UNSIGNED ==
    <<"I", "N", "T", " ", "U", "N", "S", "I", "G", "N", "E", "D">>
K_REAL ==
    <<"R", "E", "A", "L">>
K_FLOA ==
    <<"F", "L", "O", "A">>
K_DOUB ==
    <<"D", "O", "U", "B">>
T_DOUBLE ==
    <<"D", "O", "U", "B", "L", "E">>
K_NUM ==
    <<"N", "U", "M">>
K_DEC ==
    <<"D", "E", "C">>
T_DECIMAL_10_2 ==
    <<"D", "E", "C", "I", "M", "A", "L", "(", "1", "0", ",", "2", ")">>
K_BOOL ==
    <<"B", "O", "O", "L">>
T_TINYINT_1 ==
    <<"T", "I", "N", "Y", "I", "N", "T", "(", "1", ")">>
K_CHAR ==
    <<"C", "H", "A", "R">>
K_CLOB ==
    <<"C", "L", "O", "B">>
K_TEXT ==
    <<"T", "E", "X", "T">>
K_BLOB ==
    <<"B", "L", "O", "B">>
T_LONGTEXT ==
    <<"L", "O", "N", "G", "T", "E", "X", "T">>
K_TIME ==
    <<"T", "I", "M", "E">>
K_DATE ==
    <<"D", "A", "T", "E">>
T_DATETIME ==
    <<"D", "A", "T", "E", "T", "I", "M", "E">>
T_VARCHAR_255 ==
    <<"V", "A", "R", "C", "H", "A", "R", "(", "2", "5", "5", ")">>
P_VARCHAR ==
    <<"V", "A", "R", "C", "H", "A", "R", "(">>
P_VARBINARY ==
    <<"V", "A", "R", "B", "I", "N", "A", "R", "Y", "(">>
P_RPAREN ==
    <<")">>

\* INTEGER_TYPES with the generic INT entry first
INTEGER_TYPES_generic_first ==
    << <<K_INT, T_INT_UNSIGNED>>,
       <<K_TINYINT, K_TINYINT>>,
       <<K_SMALLINT, K_SMALLINT>>,
       <<K_MEDIUMINT, K_MEDIUMINT>>,
       <<K_BIGINT, T_BIGINT_UNSIGNED>> >>

\* INTEGER_TYPES, in the dict's insertion order: <<keyword, MySQL type>>
INTEGER_TYPES ==
    << <<K_TINYINT, K_TINYINT>>,
       <<K_SMALLINT, K_SMALLINT>>,
       <<K_MEDIUMINT, K_MEDIUMINT>>,
       <<K_BIGINT, T_BIGINT_UNSIGNED>>,
       <<K_INT, T_INT_UNSIGNED>> >>

\* NUMERIC_TYPES: <<keywords, MySQL type>>
NUMERIC_TYPES ==
    << << {K_REAL, K_FLOA, K_DOUB}, T_DOUBLE >>,
       << {K_NUM, K_DEC}, T_DECIMAL_10_2 >>,
       << {K_BOOL}, T_TINYINT_1 >> >>

TEXT_TYPES == {K_CHAR, K_CLOB, K_TEXT}

INDEXED_VARCHAR_MAX == 191

DEFAULT_VARCHAR_MAX == 255

(***************************************************************************)
(* TypeMapper: map_sqlite_to_mysql_type and its category mappers.         *)
(***************************************************************************)

\* map_integer_type: the first key of INTEGER_TYPES found in the declaration
map_integer_type(sqlite_type_upper) ==
    LET hits == {k \in 1..Len(INTEGER_TYPES) :
                    Contains(INTEGER_TYPES[k][1], sqlite_type_upper)}
    IN  IF hits = {} THEN None
        ELSE INTEGER_TYPES[CHOOSE k \in hits : \A m \in hits : k <= m][2]

\* map_numeric_type: the first group of NUMERIC_TYPES with a keyword found
map_numeric_type(sqlite_type_upper) ==
    LET hits == {k \in 1..Len(NUMERIC_TYPES) :
                    \E key \in NUMERIC_TYPES[k][1] : Contains(key, sqlite_type_upper)}
    IN  IF hits = {} THEN None
        ELSE NUMERIC_TYPES[CHOOSE k \in hits : \A m \in hits : k <= m][2]

\* re.search(r'\((\d+)\)', s): the positions (open, close) of the matches
LengthMatches(s) ==
    {m \in (1..Len(s)) \X (1..Len(s)) :
        /\ m[2] > m[1] + 1
        /\ s[m[1]] = "("
        /\ s[m[2]] = ")"
        /\ \A k \in (m[1] + 1)..(m[2] - 1) : IsDigitChar(s[k])}

\* the leftmost match of the length pattern
FirstLengthMatch(s) ==
    CHOOSE m \in LengthMatches(s) : \A n \in LengthMatches(s) : m[1] <= n[1]

\* map_text_type with the declared length read before the index flags
map_text_type_length_first(sqlite_type_raw, is_primary_key, is_unique) ==
    LET sqlite_type_upper == Upper(sqlite_type_raw)
    IN  IF ~ \E k \in TEXT_TYPES : Contains(k, sqlite_type_upper) THEN None
        ELSE IF LengthMatches(sqlite_type_raw) # {}
             THEN LET m == FirstLengthMatch(sqlite_type_raw)
                      length == StrToInt(SubSeq(sqlite_type_raw, m[1] + 1, m[2] - 1))
                  IN  P_VARCHAR \o IntToStr(Min(length, DEFAULT_VARCHAR_MAX)) \o P_RPAREN
        ELSE IF is_primary_key \/ is_unique
             THEN P_VARCHAR \o IntToStr(INDEXED_VARCHAR_MAX) \o P_RPAREN
        ELSE T_LONGTEXT

\* map_text_type
map_text_type(sqlite_type_raw, is_primary_key, is_unique) ==
    LET sqlite_type_upper == Upper(sqlite_type_raw)
    IN  IF ~ \E k \in TEXT_TYPES : Contains(k, sqlite_type_upper) THEN None
        ELSE IF is_primary_key \/ is_unique
             THEN P_VARCHAR \o IntToStr(INDEXED_VARCHAR_MAX) \o P_RPAREN
        ELSE IF LengthMatches(sqlite_type_raw) # {}
             THEN LET m == FirstLengthMatch(sqlite_type_raw)
                      length == StrToInt(SubSeq(sqlite_type_raw, m[1] + 1, m[2] - 1))
                  IN  P_VARCHAR \o IntToStr(Min(length, DEFAULT_VARCHAR_MAX)) \o P_RPAREN
        ELSE T_LONGTEXT

\* map_blob_type
map_blob_type(sqlite_type_raw, is_primary_key, is_unique) ==
    IF ~ Contains(K_BLOB, Upper(sqlite_type_raw)) THEN None
    ELSE IF is_primary_key \/ is_unique
         THEN P_VARBINARY \o IntToStr(INDEXED_VARCHAR_MAX) \o P_RPAREN
    ELSE K_BLOB

\* map_datetime_type
map_datetime_type(sqlite_type_upper) ==
    IF sqlite_type_upper = K_TIME THEN K_TIME
    ELSE IF Contains(K_DATE, sqlite_type_upper) THEN T_DATETIME
    ELSE None

\* the mapper chain of map_sqlite_to_mysql_type, in priority order
MapperChain(sqlite_type_raw, is_primary_key, is_unique) ==
    LET sqlite_type_upper == Upper(sqlite_type_raw)
    IN  << map_integer_type(sqlite_type_upper),
           map_text_type(sqlite_type_raw, is_primary_key, is_unique),
           map_blob_type(sqlite_type_raw, is_primary_key, is_unique),
           map_numeric_type(sqlite_type_upper),
           map_datetime_type(sqlite_type_upper) >>

\* map_sqlite_to_mysql_type: the first mapper result that is not None,
\* else the VARCHAR(255) fallback
map_sqlite_to_mysql_type(sqlite_type_raw, is_primary_key, is_unique) ==
    LET chain == MapperChain(sqlite_type_raw, is_primary_key, is_unique)
        hits == {k \in 1..Len(chain) : chain[k] # None}
    IN  IF hits = {} THEN T_VARCHAR_255
        ELSE chain[CHOOSE k \in hits : \A m \in hits : k <= m]

\* the warnings map_sqlite_to_mysql_type prints (by kind), in print order
map_type_warnings(sqlite_type_raw, is_primary_key, is_unique) ==
    LET sqlite_type_upper == Upper(sqlite_type_raw)
        chain == MapperChain(sqlite_type_raw, is_primary_key, is_unique)
    IN  IF chain[1] # None THEN <<>>
        ELSE IF chain[2] # None
             THEN IF is_primary_key \/ is_unique THEN <<"indexed_text">> ELSE <<>>
        ELSE IF chain[3] # None
             THEN IF is_primary_key \/ is_unique THEN <<"indexed_blob">> ELSE <<>>
        ELSE IF chain[4] # None \/ chain[5] # None THEN <<>>
        ELSE <<"unknown_type">>

D_CURRENT_TIMESTAMP ==
    <<"C", "U", "R", "R", "E", "N", "T", "_", "T", "I", "M", "E", "S", "T", "A", "M", "P">>
D_Q_CURRENT_TIMESTAMP ==
    <<"'", "C", "U", "R", "R", "E", "N", "T", "_", "T", "I", "M", "E", "S", "T", "A", "M", "P", "'">>
D_DATETIME_NOW ==
    <<"D", "A", "T", "E", "T", "I", "M", "E", "(", "'", "N", "O", "W", "'", ")">>
D_NULL ==
    <<"N", "U", "L", "L">>
D_Q_NULL ==
    <<"'", "N", "U", "L", "L", "'">>
S_DEFAULT_CURRENT_TIMESTAMP ==
    <<" ", "D", "E", "F", "A", "U", "L", "T", " ", "C", "U", "R", "R", "E", "N", "T", "_", "T", "I", "M", "E", "S", "T", "A", "M", "P">>
S_DEFAULT_NULL ==
    <<" ", "D", "E", "F", "A", "U", "L", "T", " ", "N", "U", "L", "L">>
S_DEFAULT ==
    <<" ", "D", "E", "F", "A", "U", "L", "T", " ">>
S_DEFAULT_Q ==
    <<" ", "D", "E", "F", "A", "U", "L", "T", " ", "'">>
S_AUTO_INCREMENT ==
    <<" ", "A", "U", "T", "O", "_", "I", "N", "C", "R", "E", "M", "E", "N", "T">>
S_NOT_NULL ==
    <<" ", "N", "O", "T", " ", "N", "U", "L", "L">>
S_PRIMARY_KEY ==
    <<"P", "R", "I", "M", "A", "R", "Y", " ", "K", "E", "Y", " ", "(">>
S_UNIQUE ==
    <<"U", "N", "I", "Q", "U", "E", " ", "(">>
S_COMMA_SPACE ==
    <<",", " ">>
S_COL_SEP ==
    <<",", "\n", " ", " ", " ", " ">>
S_CREATE_TABLE ==
    <<"C", "R", "E", "A", "T", "E", " ", "T", "A", "B", "L", "E", " ", "I", "F", " ", "N", "O", "T", " ", "E", "X", "I", "S", "T", "S", " ">>
S_CREATE_OPEN ==
    <<" ", "(", "\n", " ", " ", " ", " ">>
S_CREATE_CLOSE ==
    <<"\n", ")", " ">>
S_ENGINE ==
    <<"E", "N", "G", "I", "N", "E", "=", "I", "n", "n", "o", "D", "B", " ", "D", "E", "F", "A", "U", "L", "T", " ", "C", "H", "A", "R", "S", "E", "T", "=", "u", "t", "f", "8", "m", "b", "4", " ", "C", "O", "L", "L", "A", "T", "E", "=", "u", "t", "f", "8", "m", "b", "4", "_", "u", "n", "i", "c", "o", "d", "e", "_", "c", "i", ";">>

(***************************************************************************)
(* DefaultValueTranslator: build_default_sql.                             *)
(***************************************************************************)

\* s.strip(chars): drop the leading and trailing characters that are in chars
RECURSIVE LStrip(_, _)
LStrip(s, chars) ==
    IF Len(s) > 0 /\ s[1] \in chars THEN LStrip(Tail(s), chars) ELSE s

RECURSIVE RStrip(_, _)
RStrip(s, chars) ==
    IF Len(s) > 0 /\ s[Len(s)] \in chars
    THEN RStrip(SubSeq(s, 1, Len(s) - 1), chars)
    ELSE s

Strip(s, chars) == RStrip(LStrip(s, chars), chars)

Whitespace == {" ", "\n", "\t"}

AllDigits(s) == \A k \in 1..Len(s) : IsDigitChar(s[k])

\* float(text) for the plain decimal forms [ws][+-]digits[.digits][ws],
\* [ws][+-].digits[ws]: a record for the value, with ok = FALSE for ValueError.
\* The value is kept as sign, integer digits and "has a non-zero fraction",
\* which is all the range test of build_default_sql reads.
ParseFloat(text) ==
    LET t == Strip(text, Whitespace)
        signed == Len(t) > 0 /\ t[1] \in {"+", "-"}
        body == IF signed THEN Tail(t) ELSE t
        dots == {k \in 1..Len(body) : body[k] = "."}
        dot == IF dots = {} THEN Len(body) + 1
               ELSE CHOOSE k \in dots : \A m \in dots : k <= m
        ip == SubSeq(body, 1, dot - 1)
        fp == SubSeq(body, dot + 1, Len(body))
    IN  IF /\ Cardinality(dots) <= 1
           /\ AllDigits(ip)
           /\ AllDigits(fp)
           /\ Len(ip) + Len(fp) > 0
        THEN [ok |-> TRUE,
              neg |-> signed /\ t[1] = "-",
              ip |-> LStrip(ip, {"0"}),
              frac |-> \E k \in 1..Len(fp) : fp[k] # "0"]
        ELSE [ok |-> FALSE, neg |-> FALSE, ip |-> <<>>, frac |-> FALSE]

\* numeric_value > bound, for a parsed value and an integer bound >= 0
MagnitudeAbove(v, bound) ==
    \/ Len(v.ip) > Len(IntToStr(bound))
    \/ /\ Len(v.ip) <= Len(IntToStr(bound))
       /\ \/ StrToInt(v.ip) > bound
          \/ StrToInt(v.ip) = bound /\ v.frac

\* the range test against the unsigned range 0..255
OutOfTinyintRange_unsigned(v) ==
    IF v.neg THEN MagnitudeAbove(v, 0) ELSE MagnitudeAbove(v, 255)

\* numeric_value < -128 or numeric_value > 127
OutOfTinyintRange(v) ==
    IF v.neg THEN MagnitudeAbove(v, 128) ELSE MagnitudeAbove(v, 127)

\* build_default_sql: <<default_sql, possibly widened mysql_type>>
build_default_sql(default_value, mysql_type) ==
    IF default_value = None THEN << <<>>, mysql_type >>
    ELSE
    LET default_str_raw == default_value
        default_str == Replace(Upper(default_str_raw), <<"\"">>, <<"'">>)
        numeric_value == ParseFloat(default_value)
    IN  IF \/ default_str = D_CURRENT_TIMESTAMP
           \/ default_str = D_Q_CURRENT_TIMESTAMP
           \/ Contains(D_DATETIME_NOW, default_str)
        THEN << S_DEFAULT_CURRENT_TIMESTAMP, mysql_type >>
        ELSE IF default_str \in {D_NULL, D_Q_NULL}
        THEN << S_DEFAULT_NULL, mysql_type >>
        ELSE IF numeric_value.ok
        THEN << S_DEFAULT \o default_value,
                IF Contains(K_TINYINT, mysql_type) /\ OutOfTinyintRange(numeric_value)
                THEN Replace(mysql_type, K_TINYINT, K_SMALLINT)
                ELSE mysql_type >>
        ELSE LET cleaned == Replace(Strip(default_str_raw, {"'", "\""}),
                                    <<"'">>, <<"'", "'">>)
             IN  << S_DEFAULT_Q \o cleaned \o <<"'">>, mysql_type >>

\* the warnings build_default_sql prints (by kind)
build_default_warnings(default_value, mysql_type) ==
    IF default_value = None THEN <<>>
    ELSE
    LET default_str == Replace(Upper(default_value), <<"\"">>, <<"'">>)
        numeric_value == ParseFloat(default_value)
    IN  IF /\ default_str # D_CURRENT_TIMESTAMP
           /\ default_str # D_Q_CURRENT_TIMESTAMP
           /\ ~ Contains(D_DATETIME_NOW, default_str)
           /\ default_str \notin {D_NULL, D_Q_NULL}
           /\ numeric_value.ok
           /\ Contains(K_TINYINT, mysql_type)
           /\ OutOfTinyintRange(numeric_value)
        THEN <<"tinyint_promoted">>
        ELSE <<>>

(***************************************************************************)
(* ConstraintResolver: set_ai_nns.                                        *)
(***************************************************************************)

\* set_ai_nns leaving NOT NULL to the source declaration alone
set_ai_nns_declared_only(pk, mysql_type, not_null) ==
    << IF pk = 1 /\ (Contains(K_INT, mysql_type) \/ Contains(K_BIGINT, mysql_type))
       THEN S_AUTO_INCREMENT ELSE <<>>,
       IF not_null = 1 THEN S_NOT_NULL ELSE <<>> >>

\* set_ai_nns: <<auto_increment, not_null_sql>>
set_ai_nns(pk, mysql_type, not_null) ==
    IF pk = 1 /\ (Contains(K_INT, mysql_type) \/ Contains(K_BIGINT, mysql_type))
    THEN << S_AUTO_INCREMENT, S_NOT_NULL >>
    ELSE IF not_null = 1 THEN << <<>>, S_NOT_NULL >>
    ELSE << <<>>, <<>> >>

\* the warnings set_ai_nns prints (by kind)
set_ai_nns_warnings(pk, mysql_type, not_null) ==
    IF /\ pk = 1
       /\ (Contains(K_INT, mysql_type) \/ Contains(K_BIGINT, mysql_type))
       /\ not_null = 0
    THEN <<"pk_nullable">>
    ELSE <<>>

(***************************************************************************)
(* TableMigrator, schema half: process_columns and the CREATE TABLE        *)
(* statement of migrate_table.                                             *)
(*                                                                         *)
(* A column is a row of PRAGMA table_info:                                 *)
(*   [name, type, notnull, dflt_value, pk]   (col[1] .. col[5])            *)
(* An index is a row of PRAGMA index_list with its PRAGMA index_info:      *)
(*   [name, unique, cols]                                                  *)
(***************************************************************************)

\* pk_col_names = {col[1] for col in columns if col[5] == 1}
pk_col_names(columns) ==
    {columns[k].name : k \in {m \in 1..Len(columns) : columns[m].pk = 1}}

\* the is_unique_col loop of process_columns: some unique index holds
\* exactly this column
is_unique_col(col, indexes) ==
    \E k \in 1..Len(indexes) :
        /\ indexes[k].unique = 1
        /\ Len(indexes[k].cols) = 1
        /\ indexes[k].cols[1] = col.name

\* the mapped type process_columns passes on
column_mysql_type(col, indexes, pk_names) ==
    map_sqlite_to_mysql_type(col.type, col.name \in pk_names, is_unique_col(col, indexes))

\* the column definition process_columns renders:
\* name in backticks, then {mysql_type}{not_null_sql}{default_sql}{auto_increment},
\* stripped
column_definition(col, indexes, pk_names) ==
    LET mysql_type == column_mysql_type(col, indexes, pk_names)
        ai_nn == set_ai_nns(col.pk, mysql_type, col.notnull)
        dflt == build_default_sql(col.dflt_value, mysql_type)
    IN  Strip(<<Backtick>> \o col.name \o <<Backtick, " ">> \o dflt[2] \o ai_nn[2]
                  \o dflt[1] \o ai_nn[1],
              Whitespace)

\* the warnings process_columns prints for one column, in print order
column_warnings(col, indexes, pk_names) ==
    LET mysql_type == column_mysql_type(col, indexes, pk_names)
    IN  map_type_warnings(col.type, col.name \in pk_names, is_unique_col(col, indexes))
        \o set_ai_nns_warnings(col.pk, mysql_type, col.notnull)
        \o build_default_warnings(col.dflt_value, mysql_type)

\* whether process_columns appends the column to primary_keys
IsPrimaryKeyColumn(col) == col.pk = 1

\* process_columns: the context lists after one more column.
\* ctx = [col_defs, primary_keys, warnings]
process_columns(col, indexes, pk_names, ctx) ==
    [col_defs |->
        ctx.col_defs
        \o << column_definition(col, indexes, pk_names) >>
        \o (IF is_unique_col(col, indexes) /\ col.name \notin pk_names
            THEN << S_UNIQUE \o <<Backtick>> \o col.name \o <<Backtick, ")">> >>
            ELSE <<>>),
     primary_keys |->
        ctx.primary_keys
        \o (IF IsPrimaryKeyColumn(col) THEN << <<Backtick>> \o col.name \o <<Backtick>> >>
            ELSE <<>>),
     warnings |->
        ctx.warnings
        \o [k \in 1..Len(column_warnings(col, indexes, pk_names)) |->
               << column_warnings(col, indexes, pk_names)[k], col.name >>]]

EmptyContext == [col_defs |-> <<>>, primary_keys |-> <<>>, warnings |-> <<>>]

\* for col in columns: process_columns(...)   (the first n columns)
RECURSIVE ProcessAll(_, _, _)
ProcessAll(columns, indexes, n) ==
    IF n = 0 THEN EmptyContext
    ELSE process_columns(columns[n], indexes, pk_col_names(columns),
                         ProcessAll(columns, indexes, n - 1))

\* col_defs of migrate_table once the PRIMARY KEY clause is appended
final_col_defs(ctx) ==
    IF Len(ctx.primary_keys) > 0
    THEN ctx.col_defs
         \o << S_PRIMARY_KEY \o Join(S_COMMA_SPACE, ctx.primary_keys) \o <<")">> >>
    ELSE ctx.col_defs

\* escaped_table_name: the table name in backticks
escaped_table_name(table_name) == <<Backtick>> \o table_name \o <<Backtick>>

\* create_stmt of migrate_table
create_stmt(table_name, ctx) ==
    S_CREATE_TABLE \o escaped_table_name(table_name) \o S_CREATE_OPEN
        \o Join(S_COL_SEP, final_col_defs(ctx)) \o S_CREATE_CLOSE \o S_ENGINE
KNEX_MS_THRESHOLD ==
    <<"4", "0", "0", "0", "0", "0", "0", "0", "0", "0">>
TIME_T_MAX ==
    <<"9", "2", "2", "3", "3", "7", "2", "0", "3", "6", "8", "5", "4", "7", "7", "5", "8", "0", "7">>

(***************************************************************************)
(* knex_timestamp_conversion.                                              *)
(*                                                                         *)
(* A field value is [kind, text]: kind "none" (None), "int" (text is the   *)
(* decimal form of the integer) or "str".  Integers beyond 32 bits are     *)
(* kept as digit strings, and compared and divided digit-wise.             *)
(***************************************************************************)

\* a character that str.isdigit() accepts and int() rejects (such as the
\* superscript two)
SuperscriptTwo == "SUPERSCRIPT TWO"

\* str(value)
PyStr(value) == IF value.kind = "none" THEN <<"N", "o", "n", "e">> ELSE value.text

\* bool(value): None, 0 and the empty string are false
Truthy(value) ==
    /\ value.kind # "none"
    /\ value.kind = "int" => value.text # <<"0">>
    /\ value.kind = "str" => Len(value.text) > 0

\* s.isdigit()
IsDigitString(s) ==
    /\ Len(s) > 0
    /\ \A k \in 1..Len(s) : IsDigitChar(s[k]) \/ s[k] = SuperscriptTwo

\* whether int(s) parses, for s accepted by isdigit()
IntParses(s) == \A k \in 1..Len(s) : IsDigitChar(s[k])

\* int(s) as a digit string without leading zeros
Canonical(s) ==
    IF LStrip(s, {"0"}) = <<>> THEN <<"0">> ELSE LStrip(s, {"0"})

\* a > b, for two canonical digit strings
RECURSIVE DigitsGreater(_, _)
DigitsGreater(a, b) ==
    IF Len(a) # Len(b) THEN Len(a) > Len(b)
    ELSE IF Len(a) = 0 THEN FALSE
    ELSE IF a[1] # b[1] THEN DigitValue(a[1]) > DigitValue(b[1])
    ELSE DigitsGreater(Tail(a), Tail(b))

\* a // 1000, for a canonical digit string
FloorDiv1000(a) ==
    IF Len(a) <= 3 THEN <<"0">> ELSE SubSeq(a, 1, Len(a) - 3)

\* divmod(a, d) by long division, for a digit string a of at most 12 digits
\* and 0 < d: <<quotient, remainder>>
RECURSIVE DivMod(_, _)
DivMod(a, d) ==
    IF Len(a) = 0 THEN <<0, 0>>
    ELSE LET prev == DivMod(SubSeq(a, 1, Len(a) - 1), d)
             cur == 10 * prev[2] + DigitValue(a[Len(a)])
         IN  << 10 * prev[1] + (cur \div d), cur % d >>

\* the proleptic Gregorian date of a day number counted from 1970-01-01:
\* <<year, month, day>>
CivilFromDays(days) ==
    LET z == days + 719468
        era == z \div 146097
        doe == z - era * 146097
        yoe == (doe - (doe \div 1460) + (doe \div 36524) - (doe \div 146096)) \div 365
        doy == doe - (365 * yoe + (yoe \div 4) - (yoe \div 100))
        mp == (5 * doy + 2) \div 153
        d == doy - ((153 * mp + 2) \div 5) + 1
        m == IF mp < 10 THEN mp + 3 ELSE mp - 9
        y == yoe + era * 400 + (IF m <= 2 THEN 1 ELSE 0)
    IN  <<y, m, d>>

\* a number printed with at least two digits
Pad2(n) == IF n < 10 THEN <<"0">> \o IntToStr(n) ELSE IntToStr(n)

\* datetime.fromtimestamp(ts).strftime('%Y-%m-%d %H:%M:%S') with the local
\* time zone utc_offset seconds east of UTC: [err, text], where err is
\*   "none"           the conversion succeeded, text is the date-time
\*   "ValueError"     year out of range, or OSError from the platform
\*                    (the handler of the source catches both)
\*   "OverflowError"  the value does not fit the platform's time_t
FromTimestamp(ts, utc_offset) ==
    IF DigitsGreater(ts, TIME_T_MAX)
    THEN [err |-> "OverflowError", text |-> <<>>]
    ELSE IF Len(ts) > 12
    THEN [err |-> "ValueError", text |-> <<>>]
    ELSE
    LET dm == DivMod(ts, 86400)
        local == dm[2] + utc_offset
        days == dm[1] + (IF local < 0 THEN -1 ELSE IF local >= 86400 THEN 1 ELSE 0)
        secs == (local + 86400) % 86400
        ymd == CivilFromDays(days)
    IN  IF ymd[1] > 9999
        THEN [err |-> "ValueError", text |-> <<>>]
        ELSE [err |-> "none",
              text |-> IntToStr(ymd[1]) \o <<"-">> \o Pad2(ymd[2]) \o <<"-">>
                       \o Pad2(ymd[3]) \o <<" ">> \o Pad2(secs \div 3600) \o <<":">>
                       \o Pad2((secs % 3600) \div 60) \o <<":">> \o Pad2(secs % 60)]

\* whether the row's field 3 takes the conversion branch:
\* len(new_row) >= 4 and migration_time and str(migration_time).isdigit()
IsEpochField(row) ==
    /\ Len(row) >= 4
    /\ Truthy(row[4])
    /\ IsDigitString(PyStr(row[4]))

\* the milliseconds test taking the threshold itself for milliseconds
timestamp_val_at_or_above(migration_time) ==
    LET v == Canonical(PyStr(migration_time))
    IN  IF ~ DigitsGreater(KNEX_MS_THRESHOLD, v) THEN FloorDiv1000(v) ELSE v

\* timestamp_val after the milliseconds test
timestamp_val(migration_time) ==
    LET v == Canonical(PyStr(migration_time))
    IN  IF DigitsGreater(v, KNEX_MS_THRESHOLD) THEN FloorDiv1000(v) ELSE v

\* the exception the loop body lets escape for this row, or "none"
knex_row_error(row, utc_offset) ==
    IF ~ IsEpochField(row) THEN "none"
    ELSE IF ~ IntParses(PyStr(row[4])) THEN "ValueError"
    ELSE IF FromTimestamp(timestamp_val(row[4]), utc_offset).err = "OverflowError"
         THEN "OverflowError"
    ELSE "none"

\* the loop body of knex_timestamp_conversion for a row it completes:
\* the processed row
knex_row(row, utc_offset) ==
    IF ~ IsEpochField(row) THEN row
    ELSE LET dt == FromTimestamp(timestamp_val(row[4]), utc_offset)
         IN  [row EXCEPT ![4] = IF dt.err = "none"
                                THEN [kind |-> "str", text |-> dt.text]
                                ELSE [kind |-> "none", text |-> <<>>]]

\* whether the loop body warns for this row
knex_row_warns(row, utc_offset) ==
    /\ IsEpochField(row)
    /\ IntParses(PyStr(row[4]))
    /\ FromTimestamp(timestamp_val(row[4]), utc_offset).err = "ValueError"
ST_INTEGER ==
    <<"I", "N", "T", "E", "G", "E", "R">>
ST_UNSIGNED_BIG_INT ==
    <<"U", "N", "S", "I", "G", "N", "E", "D", " ", "B", "I", "G", " ", "I", "N", "T">>
ST_int ==
    <<"i", "n", "t">>
ST_VARCHAR_50 ==
    <<"V", "A", "R", "C", "H", "A", "R", "(", "5", "0", ")">>
ST_varchar_300 ==
    <<"v", "a", "r", "c", "h", "a", "r", "(", "3", "0", "0", ")">>
ST_PRINTABLE_TEXT ==
    <<"P", "R", "I", "N", "T", "A", "B", "L", "E", " ", "T", "E", "X", "T">>
ST_NUMERIC ==
    <<"N", "U", "M", "E", "R", "I", "C">>
ST_BOOLEAN ==
    <<"B", "O", "O", "L", "E", "A", "N">>
ST_TIMESTAMP ==
    <<"T", "I", "M", "E", "S", "T", "A", "M", "P">>
DV_200 ==
    <<"2", "0", "0">>
DV_m129 ==
    <<"-", "1", "2", "9">>
DV_127 ==
    <<"1", "2", "7">>
DV_m128 ==
    <<"-", "1", "2", "8">>
DV_128 ==
    <<"1", "2", "8">>
DV_0 ==
    <<"0">>
DV_127_5 ==
    <<"1", "2", "7", ".", "5">>
DV_current_timestamp ==
    <<"c", "u", "r", "r", "e", "n", "t", "_", "t", "i", "m", "e", "s", "t", "a", "m", "p">>
DV_datetime_now ==
    <<"d", "a", "t", "e", "t", "i", "m", "e", "(", "'", "n", "o", "w", "'", ")">>
DV_active ==
    <<"'", "a", "c", "t", "i", "v", "e", "'">>
DV_its ==
    <<"'", "i", "t", "'", "'", "s", "'">>
DV_quoted_a ==
    <<"'", "'", "'", "a", "'", "'", "'">>
DV_q200 ==
    <<"'", "2", "0", "0", "'">>
N_orders ==
    <<"o", "r", "d", "e", "r", "s">>
N_idx ==
    <<"i", "d", "x", "_", "1">>

(***************************************************************************)
(* Input pools: the source schemas the schema specification draws from.   *)
(***************************************************************************)

\* the largest number of columns of a drawn table
MaxCols == 2

\* declared types (PRAGMA table_info, column 2)
SqliteTypes ==
    { ST_INTEGER, K_TINYINT, K_SMALLINT, K_MEDIUMINT, K_BIGINT,
      ST_UNSIGNED_BIG_INT, ST_int, K_TEXT, ST_VARCHAR_50, ST_varchar_300,
      K_CLOB, ST_PRINTABLE_TEXT, K_BLOB, K_REAL, ST_NUMERIC, ST_BOOLEAN,
      T_DATETIME, K_TIME, ST_TIMESTAMP, <<>> }

\* default literals (PRAGMA table_info, column 4)
DefaultValues ==
    { None, DV_200, DV_m129, DV_127, DV_m128, DV_128, DV_0, DV_127_5,
      D_CURRENT_TIMESTAMP, DV_current_timestamp, DV_datetime_now, D_NULL,
      DV_active, DV_its, DV_q200, DV_quoted_a }

\* the name of the k-th column: c1, c2, ...
ColName(k) == <<"c">> \o IntToStr(k)

\* the k-th column of a one-column table: any type, any default
WideColumns(k) ==
    [name : {ColName(k)}, type : SqliteTypes, notnull : {0, 1},
     dflt_value : DefaultValues, pk : {0, 1}]

\* the k-th column of a table of n > 1 columns
NarrowColumns(k, n) ==
    [name : {ColName(k)}, type : {ST_INTEGER, K_TEXT}, notnull : {0, 1},
     dflt_value : {None}, pk : 0..n]

\* SQLite numbers the members of a primary key 1, 2, ..., k
ValidPkOrdinals(columns) ==
    LET members == {k \in 1..Len(columns) : columns[k].pk > 0}
    IN  /\ \A k, m \in members : columns[k].pk = columns[m].pk => k = m
        /\ {columns[k].pk : k \in members} = 1..Cardinality(members)

ColumnLists ==
    {cols \in [1..1 -> WideColumns(1)] : ValidPkOrdinals(cols)}
    \cup UNION {
        {cols \in [1..n -> UNION {NarrowColumns(k, n) : k \in 1..n}] :
            /\ \A k \in 1..n : cols[k].name = ColName(k)
            /\ ValidPkOrdinals(cols)} : n \in 2..MaxCols}

\* the indexes of a table: none, a single-column index on the last column
\* (unique or not), or a unique index on all the columns
IndexLists(columns) ==
    LET last == columns[Len(columns)].name
        all == [k \in 1..Len(columns) |-> columns[k].name]
    IN  { <<>>,
          << [name |-> N_idx, unique |-> 1, cols |-> <<last>>] >>,
          << [name |-> N_idx, unique |-> 0, cols |-> <<last>>] >>,
          << [name |-> N_idx, unique |-> 1, cols |-> all] >> }

SchemaTables ==
    UNION { [name : {N_orders}, columns : {cols}, indexes : IndexLists(cols)] :
              cols \in ColumnLists }
MT_1000 ==
    <<"1", "0", "0", "0">>
MT_1000000 ==
    <<"1", "0", "0", "0", "0", "0", "0">>
MT_4000000 ==
    <<"4", "0", "0", "0", "0", "0", "0">>
MT_4000001 ==
    <<"4", "0", "0", "0", "0", "0", "1">>
MT_4000001000 ==
    <<"4", "0", "0", "0", "0", "0", "1", "0", "0", "0">>
MT_1700000000 ==
    <<"1", "7", "0", "0", "0", "0", "0", "0", "0", "0">>
MT_1700000000000 ==
    <<"1", "7", "0", "0", "0", "0", "0", "0", "0", "0", "0", "0", "0">>
MT_1700000000999 ==
    <<"1", "7", "0", "0", "0", "0", "0", "0", "0", "0", "9", "9", "9">>
MT_4000000001 ==
    <<"4", "0", "0", "0", "0", "0", "0", "0", "0", "1">>
MT_4000000000000 ==
    <<"4", "0", "0", "0", "0", "0", "0", "0", "0", "0", "0", "0", "0">>
MT_4000000001000 ==
    <<"4", "0", "0", "0", "0", "0", "0", "0", "0", "1", "0", "0", "0">>
MT_minus5 ==
    <<"-", "5">>
MT_007 ==
    <<"0", "0", "7">>
MT_datetime ==
    <<"2", "0", "2", "3", "-", "1", "1", "-", "1", "4", " ", "2", "2", ":", "1", "3", ":", "2", "0">>
MT_3e14 ==
    <<"3", "0", "0", "0", "0", "0", "0", "0", "0", "0", "0", "0", "0", "0", "0">>
MT_1e22 ==
    <<"1", "0", "0", "0", "0", "0", "0", "0", "0", "0", "0", "0", "0", "0", "0", "0", "0", "0", "0", "0", "0", "0", "0">>
MT_name ==
    <<"0", "0", "1", "_", "i", "n", "i", "t", ".", "j", "s">>

\* the largest number of rows of a drawn knex_migrations table
MaxKnexRows == 2

IntValue(text) == [kind |-> "int", text |-> text]

StrValue(text) == [kind |-> "str", text |-> text]

NoneValue == [kind |-> "none", text |-> <<>>]

\* values of the migration_time field (row[3] of the source)
MigrationTimes ==
    { NoneValue, IntValue(<<"0">>), IntValue(MT_1000), IntValue(MT_1000000),
      IntValue(MT_4000000), IntValue(MT_4000001), IntValue(MT_4000001000),
      IntValue(MT_1700000000), IntValue(MT_1700000000000),
      IntValue(MT_1700000000999), IntValue(KNEX_MS_THRESHOLD),
      IntValue(MT_4000000001), IntValue(MT_4000000000000),
      IntValue(MT_4000000001000), IntValue(MT_minus5), IntValue(MT_3e14),
      StrValue(MT_1700000000), StrValue(MT_007), StrValue(<<>>),
      StrValue(MT_datetime), StrValue(MT_1e22),
      StrValue(<<"1", SuperscriptTwo>>) }

\* rows of knex_migrations: (id, name, batch, migration_time), and rows of a
\* table of that name with three columns only
KnexRows ==
    { << IntValue(<<"1">>), StrValue(MT_name), IntValue(<<"1">>), mt >> :
        mt \in MigrationTimes }
    \cup { << IntValue(<<"1">>), StrValue(MT_name), IntValue(<<"1">>) >> }

\* offsets of the local time zone from UTC, in seconds
UtcOffsets == {-18000, 0, 3600}

KnexRowLists == UNION { [1..n -> KnexRows] : n \in 1..MaxKnexRows }
N_order ==
    <<"o", "r", "d", "e", "r">>
N_sqlite_sequence ==
    <<"s", "q", "l", "i", "t", "e", "_", "s", "e", "q", "u", "e", "n", "c", "e">>
N_sqlite_autoindex_prefix ==
    <<"s", "q", "l", "i", "t", "e", "_", "a", "u", "t", "o", "i", "n", "d", "e", "x", "_">>
N_sqlite_autoindex_orders_1 ==
    <<"s", "q", "l", "i", "t", "e", "_", "a", "u", "t", "o", "i", "n", "d", "e", "x", "_", "o", "r", "d", "e", "r", "s", "_", "1">>
N_knex_migrations ==
    <<"k", "n", "e", "x", "_", "m", "i", "g", "r", "a", "t", "i", "o", "n", "s">>
N_group ==
    <<"g", "r", "o", "u", "p">>
N_key ==
    <<"k", "e", "y">>
N_index ==
    <<"i", "n", "d", "e", "x">>
N_table ==
    <<"t", "a", "b", "l", "e">>

Q_PRAGMA_table_info ==
    <<"P", "R", "A", "G", "M", "A", " ", "t", "a", "b", "l", "e", "_", "i", "n", "f", "o", "(">>
Q_PRAGMA_index_list ==
    <<"P", "R", "A", "G", "M", "A", " ", "i", "n", "d", "e", "x", "_", "l", "i", "s", "t", "(">>
Q_PRAGMA_index_info ==
    <<"P", "R", "A", "G", "M", "A", " ", "i", "n", "d", "e", "x", "_", "i", "n", "f", "o", "(">>
Q_SELECT_FROM ==
    <<"S", "E", "L", "E", "C", "T", " ", "*", " ", "F", "R", "O", "M", " ">>
Q_DROP_TABLE ==
    <<"D", "R", "O", "P", " ", "T", "A", "B", "L", "E", " ", "I", "F", " ", "E", "X", "I", "S", "T", "S", " ">>
Q_INSERT_INTO ==
    <<"I", "N", "S", "E", "R", "T", " ", "I", "G", "N", "O", "R", "E", " ", "I", "N", "T", "O", " ">>
Q_VALUES ==
    <<")", " ", "V", "A", "L", "U", "E", "S", " ", "(">>
N_select ==
    <<"s", "e", "l", "e", "c", "t">>

(***************************************************************************)
(* Input pools of the run specification: the source catalog.               *)
(***************************************************************************)

\* the largest number of tables in a drawn catalog
MaxTables == 2

\* the largest number of batches a drawn table fills
MaxBatches == 2

\* the largest number of failing calls in one run
MaxFaults == 2

\* batch_size of copy_rows
batch_size == 1000

\* the reserved words the source escapes in SQLite queries
ReservedNames == {N_group, N_order, N_key, N_index, N_table}

\* table_name.lower() in {'group', 'order', 'key', 'index', 'table'}
IsReservedName(table_name) == Lower(table_name) \in ReservedNames

\* the tables migrate_table skips
IsInternalTable(table_name) ==
    \/ table_name = N_sqlite_sequence
    \/ StartsWith(table_name, N_sqlite_autoindex_prefix)

\* the row counts of the ordinary table: no rows, and MaxBatches batches of
\* which the last holds one row
RowCounts == {0, batch_size * (MaxBatches - 1) + 1}

\* the schema every table of a drawn catalog has: an integer key under a
\* unique index
RunColumns ==
    << [name |-> ColName(1), type |-> ST_INTEGER, notnull |-> 1,
        dflt_value |-> None, pk |-> 1] >>

RunIndexes == << [name |-> N_idx, unique |-> 1, cols |-> <<ColName(1)>>] >>

\* the tables of a drawn catalog: an ordinary table, a table named by a
\* keyword the source lists, empty or holding one full batch, which the
\* target holds already (in_target: left there by an earlier run), a
\* knex_migrations table of one row, a table named by a keyword the source
\* does not list, and the two kinds of internal table
RunTables ==
    [name : {N_orders}, columns : {RunColumns}, indexes : {RunIndexes},
     nrows : RowCounts, in_target : {FALSE}]
    \cup [name : {N_order}, columns : {RunColumns}, indexes : {RunIndexes},
          nrows : {0, batch_size}, in_target : {TRUE}]
    \cup [name : {N_knex_migrations, N_select}, columns : {RunColumns},
          indexes : {RunIndexes}, nrows : {1}, in_target : {FALSE}]
    \cup [name : {N_sqlite_sequence, N_sqlite_autoindex_orders_1},
          columns : {RunColumns}, indexes : {<<>>}, nrows : {0},
          in_target : {FALSE}]

\* catalogs: lists of tables with distinct names
Catalogs ==
    UNION { {c \in [1..n -> RunTables] :
                \A a, b \in 1..n : c[a].name = c[b].name => a = b} :
            n \in 0..MaxTables }

\* the source queries migrate_table issues before the DDL, in order:
\* PRAGMA table_info, then per column PRAGMA index_list and, for each unique
\* index up to the one that matches, PRAGMA index_info.  <<op, column>>
RECURSIVE IndexInfoQueries(_, _, _)
IndexInfoQueries(col, c, indexes) ==
    IF Len(indexes) = 0 THEN <<>>
    ELSE IF indexes[1].unique # 1 THEN IndexInfoQueries(col, c, Tail(indexes))
    ELSE IF Len(indexes[1].cols) = 1 /\ indexes[1].cols[1] = col.name
         THEN << <<"index_info", c>> >>
    ELSE << <<"index_info", c>> >> \o IndexInfoQueries(col, c, Tail(indexes))

RECURSIVE ColumnQueries(_, _)
ColumnQueries(table, c) ==
    IF c > Len(table.columns) THEN <<>>
    ELSE << <<"index_list", c>> >>
         \o IndexInfoQueries(table.columns[c], c, table.indexes)
         \o ColumnQueries(table, c + 1)

IntrospectionQueries(table) ==
    << <<"table_info", 0>> >> \o ColumnQueries(table, 1)

\* the slice taking one row more than batch_size
batch_one_row_more(nrows, start) ==
    << start + 1, Min(start + batch_size + 1, nrows) >>

\* batch = rows[i:i + batch_size], as <<first, last>>: the positions in rows,
\* counted from 1, of the first and the last row of the slice
batch(nrows, start) == << start + 1, Min(start + batch_size, nrows) >>

\* (len(rows) + batch_size - 1) // batch_size
total_batches(nrows) == (nrows + batch_size - 1) \div batch_size

(***************************************************************************)
(* State.                                                                  *)
(***************************************************************************)

VARIABLES
    s_table,    \* the table being translated: [name, columns, indexes]
    s_pc,       \* "columns" (in the for loop), "done", "idle"
    s_n,        \* the number of columns processed so far
    s_ctx,      \* col_defs, primary_keys and the warnings printed so far
    s_stmt      \* create_stmt, once built

VARIABLES
    k_rows,       \* the rows handed to knex_timestamp_conversion
    k_tz,         \* the offset of the local time zone
    k_pc,         \* "loop", "returned", "raised", "idle"
    k_processed,  \* processed_rows
    k_warnings,   \* the number of conversion warnings printed
    k_error       \* the exception that escaped, or "none"

VARIABLES
    pc,                  \* where migrate_sqlite_to_mysql stands
    DB,                  \* the four handles: "none", "open" or "closed"
    tables,              \* the source catalog, in catalog order
    ti,                  \* the position of the for loop over tables
    i,                   \* the offset of the batch loop of copy_rows
    successful_batches,  \* successful_batches of copy_rows
    log,                 \* the calls made on the two stores: <<op, table, arg, ok>>
    reports,             \* the batch reports printed: <<table, successful, total>>
    faults               \* the number of calls that failed so far

schema_vars == <<s_table, s_pc, s_n, s_ctx, s_stmt>>

run_vars == <<pc, DB, tables, ti, i, successful_batches, log, reports, faults>>

knex_vars == <<k_rows, k_tz, k_pc, k_processed, k_warnings, k_error>>

vars == <<schema_vars, knex_vars, run_vars>>

SchemaIdle ==
    /\ s_table = [name |-> <<>>, columns |-> <<>>, indexes |-> <<>>]
    /\ s_pc = "idle"
    /\ s_n = 0
    /\ s_ctx = EmptyContext
    /\ s_stmt = <<>>

KnexIdle ==
    /\ k_rows = <<>>
    /\ k_tz = 0
    /\ k_pc = "idle"
    /\ k_processed = <<>>
    /\ k_warnings = 0
    /\ k_error = "none"

NoHandles ==
    [sqlite_conn |-> "none", sqlite_cursor |-> "none",
     mysql_conn |-> "none", mysql_cursor |-> "none"]

RunIdle ==
    /\ pc = "idle"
    /\ DB = NoHandles
    /\ tables = <<>>
    /\ ti = 0
    /\ i = 0
    /\ successful_batches = 0
    /\ log = <<>>
    /\ reports = <<>>
    /\ faults = 0

(***************************************************************************)
(* The schema specification: migrate_table building the CREATE TABLE       *)
(* statement of one table, one process_columns call at a time.             *)
(***************************************************************************)

SchemaInit ==
    /\ s_table \in SchemaTables
    /\ s_pc = "columns"
    /\ s_n = 0
    /\ s_ctx = EmptyContext
    /\ s_stmt = <<>>
    /\ KnexIdle
    /\ RunIdle

\* one iteration of: for col in columns: process_columns(...)
ProcessColumn ==
    /\ s_pc = "columns"
    /\ s_n < Len(s_table.columns)
    /\ s_n' = s_n + 1
    /\ s_ctx' = process_columns(s_table.columns[s_n + 1], s_table.indexes,
                                pk_col_names(s_table.columns), s_ctx)
    /\ UNCHANGED <<s_table, s_pc, s_stmt, knex_vars, run_vars>>

\* the loop is exhausted: append the PRIMARY KEY clause, build create_stmt
BuildCreateStmt ==
    /\ s_pc = "columns"
    /\ s_n = Len(s_table.columns)
    /\ s_stmt' = create_stmt(s_table.name, s_ctx)
    /\ s_pc' = "done"
    /\ UNCHANGED <<s_table, s_n, s_ctx, knex_vars, run_vars>>

SchemaNext == ProcessColumn \/ BuildCreateStmt

SchemaSpec == SchemaInit /\ [][SchemaNext]_vars

(***************************************************************************)
(* The timestamp specification: knex_timestamp_conversion on one row list, *)
(* one loop iteration at a time.                                           *)
(***************************************************************************)

KnexInit ==
    /\ k_rows \in KnexRowLists
    /\ k_tz \in UtcOffsets
    /\ k_pc = "loop"
    /\ k_processed = <<>>
    /\ k_warnings = 0
    /\ k_error = "none"
    /\ SchemaIdle
    /\ RunIdle

\* one iteration of: for row_data in rows, run to its end
KnexRowConverted ==
    /\ k_pc = "loop"
    /\ Len(k_processed) < Len(k_rows)
    /\ LET row == k_rows[Len(k_processed) + 1]
       IN  /\ knex_row_error(row, k_tz) = "none"
           /\ k_processed' = Append(k_processed, knex_row(row, k_tz))
           /\ k_warnings' = k_warnings + (IF knex_row_warns(row, k_tz) THEN 1 ELSE 0)
    /\ UNCHANGED <<k_rows, k_tz, k_pc, k_error, schema_vars, run_vars>>

\* one iteration that raises an exception the loop body does not catch
KnexRowRaises ==
    /\ k_pc = "loop"
    /\ Len(k_processed) < Len(k_rows)
    /\ LET row == k_rows[Len(k_processed) + 1]
       IN  /\ knex_row_error(row, k_tz) # "none"
           /\ k_error' = knex_row_error(row, k_tz)
    /\ k_pc' = "raised"
    /\ UNCHANGED <<k_rows, k_tz, k_processed, k_warnings, schema_vars, run_vars>>

\* return processed_rows
KnexReturn ==
    /\ k_pc = "loop"
    /\ Len(k_processed) = Len(k_rows)
    /\ k_pc' = "returned"
    /\ UNCHANGED <<k_rows, k_tz, k_processed, k_warnings, k_error, schema_vars, run_vars>>

KnexNext == KnexRowConverted \/ KnexRowRaises \/ KnexReturn

KnexSpec == KnexInit /\ [][KnexNext]_vars

(***************************************************************************)
(* The run specification: migrate_sqlite_to_mysql.                         *)
(*                                                                         *)
(* Every call on a store either succeeds or fails the way the library      *)
(* reports failure (sqlite3.Error, mysql.connector.Error); which one is    *)
(* the action's outcome parameter.  rollback() and close() succeed.        *)
(***************************************************************************)

Ev(op, t, arg, ok) == <<op, t, arg, ok>>

Init ==
    /\ pc = "start"
    /\ DB = NoHandles
    /\ tables \in Catalogs
    /\ ti = 0
    /\ i = 0
    /\ successful_batches = 0
    /\ log = <<>>
    /\ reports = <<>>
    /\ faults = 0
    /\ SchemaIdle
    /\ KnexIdle

\* whether one more call may fail
MayFail == faults < MaxFaults

ConnectOutcomes ==
    {"ok", "sqlite_connect_fails", "sqlite_cursor_fails", "mysql_connect_fails",
     "mysql_cursor_fails", "fk_off_fails", "fk_off_commit_fails"}

\* establish_db_connections taking a failure to disable the foreign key
\* checks for fatal
establish_db_connections_fk_off_fatal(outcome) ==
    /\ pc = "start"
    /\ outcome # "ok" => MayFail
    /\ faults' = faults + (IF outcome = "ok" THEN 0 ELSE 1)
    /\ CASE outcome = "sqlite_connect_fails" ->
              /\ DB' = DB
              /\ log' = log
              /\ pc' = "exited"
         [] outcome = "sqlite_cursor_fails" ->
              /\ DB' = [DB EXCEPT !.sqlite_conn = "open"]
              /\ log' = log
              /\ pc' = "exited"
         [] outcome = "mysql_connect_fails" ->
              /\ DB' = [DB EXCEPT !.sqlite_conn = "closed", !.sqlite_cursor = "closed"]
              /\ log' = log \o << Ev("close_sqlite_cursor", 0, 0, TRUE),
                                  Ev("close_sqlite_conn", 0, 0, TRUE) >>
              /\ pc' = "exited"
         [] outcome = "mysql_cursor_fails" ->
              /\ DB' = [DB EXCEPT !.sqlite_conn = "closed", !.sqlite_cursor = "closed",
                                  !.mysql_conn = "open"]
              /\ log' = log \o << Ev("close_sqlite_cursor", 0, 0, TRUE),
                                  Ev("close_sqlite_conn", 0, 0, TRUE) >>
              /\ pc' = "exited"
         [] outcome \in {"ok", "fk_off_fails", "fk_off_commit_fails"} ->
              /\ DB' = [sqlite_conn |-> "open", sqlite_cursor |-> "open",
                        mysql_conn |-> "open", mysql_cursor |-> "open"]
              /\ log' = log
                   \o << Ev("fk_off", 0, 0, outcome # "fk_off_fails") >>
                   \o (IF outcome = "fk_off_fails" THEN <<>>
                       ELSE << Ev("commit", 0, 0, outcome = "ok") >>)
              /\ pc' = IF outcome = "ok" THEN "connected" ELSE "exited"
    /\ UNCHANGED <<tables, ti, i, successful_batches, reports, schema_vars, knex_vars>>

\* establish_db_connections
establish_db_connections(outcome) ==
    /\ pc = "start"
    /\ outcome # "ok" => MayFail
    /\ faults' = faults + (IF outcome = "ok" THEN 0 ELSE 1)
    /\ CASE outcome = "sqlite_connect_fails" ->
              /\ DB' = DB
              /\ log' = log
              /\ pc' = "exited"
         [] outcome = "sqlite_cursor_fails" ->
              /\ DB' = [DB EXCEPT !.sqlite_conn = "open"]
              /\ log' = log
              /\ pc' = "exited"
         [] outcome = "mysql_connect_fails" ->
              /\ DB' = [DB EXCEPT !.sqlite_conn = "closed", !.sqlite_cursor = "closed"]
              /\ log' = log \o << Ev("close_sqlite_cursor", 0, 0, TRUE),
                                  Ev("close_sqlite_conn", 0, 0, TRUE) >>
              /\ pc' = "exited"
         [] outcome = "mysql_cursor_fails" ->
              /\ DB' = [DB EXCEPT !.sqlite_conn = "closed", !.sqlite_cursor = "closed",
                                  !.mysql_conn = "open"]
              /\ log' = log \o << Ev("close_sqlite_cursor", 0, 0, TRUE),
                                  Ev("close_sqlite_conn", 0, 0, TRUE) >>
              /\ pc' = "exited"
         [] outcome \in {"ok", "fk_off_fails", "fk_off_commit_fails"} ->
              /\ DB' = [sqlite_conn |-> "open", sqlite_cursor |-> "open",
                        mysql_conn |-> "open", mysql_cursor |-> "open"]
              /\ log' = log
                   \o << Ev("fk_off", 0, 0, outcome # "fk_off_fails") >>
                   \o (IF outcome = "fk_off_fails" THEN <<>>
                       ELSE << Ev("commit", 0, 0, outcome = "ok") >>)
              /\ pc' = "connected"
    /\ UNCHANGED <<tables, ti, i, successful_batches, reports, schema_vars, knex_vars>>

\* SELECT name FROM sqlite_master WHERE type='table'; tables = fetchall()
list_tables(ok) ==
    /\ pc = "connected"
    /\ ~ ok => MayFail
    /\ faults' = faults + (IF ok THEN 0 ELSE 1)
    /\ log' = Append(log, Ev("list_tables", 0, 0, ok))
    /\ pc' = IF ok THEN "tables" ELSE "except"
    /\ ti' = IF ok THEN 1 ELSE ti
    /\ UNCHANGED <<DB, tables, i, successful_batches, reports, schema_vars, knex_vars>>

(***************************************************************************)
(* The statements migrate_table, process_columns and copy_rows send, and   *)
(* what the SQLite parser makes of a name in them.                         *)
(***************************************************************************)

\* PRAGMA table_info of migrate_table and copy_rows: the name in backticks
\* when it is one of the five listed words, bare otherwise
table_info_query(table_name) ==
    Q_PRAGMA_table_info
        \o (IF IsReservedName(table_name) THEN escaped_table_name(table_name)
            ELSE table_name)
        \o <<")", ";">>

\* PRAGMA index_list of process_columns: the name in backticks when it is one
\* of the five listed words, in single quotes otherwise
index_list_query(table_name) ==
    Q_PRAGMA_index_list
        \o (IF IsReservedName(table_name) THEN escaped_table_name(table_name)
            ELSE <<"'">> \o table_name \o <<"'">>)
        \o <<")", ";">>

\* PRAGMA index_info of process_columns
index_info_query(idx_name) ==
    Q_PRAGMA_index_info \o <<"'">> \o idx_name \o <<"'">> \o <<")", ";">>

\* the row SELECT of migrate_table
select_query(table_name) ==
    Q_SELECT_FROM
        \o (IF IsReservedName(table_name) THEN escaped_table_name(table_name)
            ELSE table_name)

\* DROP TABLE IF EXISTS of migrate_table
drop_stmt(table_name) ==
    Q_DROP_TABLE \o escaped_table_name(table_name) \o <<";">>

\* insert_stmt of copy_rows
insert_stmt(table_name, original_col_names) ==
    Q_INSERT_INTO \o escaped_table_name(table_name) \o <<" ", "(">>
        \o Join(<<",">>, [k \in 1..Len(original_col_names) |->
                             <<Backtick>> \o original_col_names[k] \o <<Backtick>>])
        \o Q_VALUES
        \o Join(<<",">>, [k \in 1..Len(original_col_names) |-> <<"%", "s">>])
        \o <<")">>

\* words the SQLite parser does not take for a name when they stand bare
\* (a sample of its keywords)
SqliteKeywords == {N_group, N_order, N_index, N_table, N_select}

\* the text is a name in backticks, single or double quotes
IsQuoted(text) ==
    /\ Len(text) >= 2
    /\ text[1] \in {Backtick, "'", "\""}
    /\ text[Len(text)] = text[1]

\* the argument of a PRAGMA statement: the text between the parentheses
PragmaArgument(query) ==
    LET open == CHOOSE k \in 1..Len(query) : query[k] = "("
    IN  SubSeq(query, open + 1, Len(query) - 2)

\* the table a SELECT * FROM statement reads
SelectSource(query) == SubSeq(query, Len(Q_SELECT_FROM) + 1, Len(query))

\* whether execute() on the source parses the name: quoted, or a bare word
\* that is no keyword
SqliteAcceptsName(text) == IsQuoted(text) \/ Lower(text) \notin SqliteKeywords

\* the names of the drawn tables for which the first source query of
\* migrate_table is rejected (sqlite3.OperationalError, which migrate_table
\* does not catch)
RejectedNames ==
    {t.name : t \in {r \in RunTables :
        ~ SqliteAcceptsName(PragmaArgument(table_info_query(r.name)))}}

table_info_rejected(table_name) == table_name \in RejectedNames

\* the outcomes of migrate_table for a table: <<kind, position>>; a name the
\* source rejects leaves the first query as the only outcome
MigrateOutcomes(table) ==
    IF IsInternalTable(table.name) THEN { <<"skip", 0>> }
    ELSE IF table_info_rejected(table.name) THEN { <<"introspect_raises", 1>> }
    ELSE { <<"introspect_raises", k>> : k \in 1..Len(IntrospectionQueries(table)) }
         \cup { <<"drop_fails", 0>>, <<"create_fails", 0>>, <<"select_raises", 0>> }
         \cup (IF table.nrows = 0 THEN { <<"no_rows", 0>> }
               ELSE { <<"copy_table_info_raises", 0>>, <<"copy", 0>> }
                    \cup (IF table.name = N_knex_migrations
                          THEN { <<"knex_raises", 0>> } ELSE {}))

\* whether the outcome is a failure of a store (one of the run's faults)
\* rather than what these statements do on a working store
IsInjected(table, outcome) ==
    /\ outcome[1] \notin {"skip", "no_rows", "copy"}
    /\ ~ table_info_rejected(table.name)

\* the outcomes after which migrate_table returns, had the DDL no except
\* clause of its own
TableReturns_ddl_uncaught == {"skip", "no_rows"}

\* the outcomes after which migrate_table returns to the table loop: the
\* skips, the caught DDL failures, and a table without rows
TableReturns == {"skip", "drop_fails", "create_fails", "no_rows"}

\* migrate_table(tables[ti]), up to the batch loop of copy_rows
migrate_table(outcome) ==
    /\ pc = "tables"
    /\ ti <= Len(tables)
    /\ outcome \in MigrateOutcomes(tables[ti])
    /\ IsInjected(tables[ti], outcome) => MayFail
    /\ faults' = faults + (IF IsInjected(tables[ti], outcome) THEN 1 ELSE 0)
    /\ LET table == tables[ti]
           q == IntrospectionQueries(table)
           kind == outcome[1]
           invoked == << Ev("migrate_table", ti, 0, TRUE) >>
           \* the first n introspection queries, the last one failing or not
           intro(n, ok) == [k \in 1..n |-> Ev(q[k][1], ti, q[k][2], k < n \/ ok)]
           ddl == invoked \o intro(Len(q), TRUE)
                    \o << Ev("drop", ti, 0, TRUE), Ev("create", ti, 0, TRUE) >>
           selected == ddl \o << Ev("select", ti, 0, TRUE) >>
           knex == IF table.name = N_knex_migrations
                   THEN << Ev("knex", ti, 0, kind # "knex_raises") >> ELSE <<>>
       IN  /\ log' = log \o
                CASE kind = "skip" -> invoked
                  [] kind = "introspect_raises" -> invoked \o intro(outcome[2], FALSE)
                  [] kind = "drop_fails" ->
                        invoked \o intro(Len(q), TRUE) \o << Ev("drop", ti, 0, FALSE) >>
                  [] kind = "create_fails" ->
                        invoked \o intro(Len(q), TRUE)
                            \o << Ev("drop", ti, 0, TRUE), Ev("create", ti, 0, FALSE) >>
                  [] kind = "select_raises" -> ddl \o << Ev("select", ti, 0, FALSE) >>
                  [] kind = "no_rows" -> selected
                  [] kind = "copy_table_info_raises" ->
                        selected \o << Ev("copy_table_info", ti, 0, FALSE) >>
                  [] kind = "knex_raises" ->
                        selected \o << Ev("copy_table_info", ti, 0, TRUE) >> \o knex
                  [] kind = "copy" ->
                        selected \o << Ev("copy_table_info", ti, 0, TRUE) >> \o knex
           /\ pc' = CASE kind \in TableReturns -> "tables"
                      [] kind = "copy" -> "batches"
                      [] OTHER -> "except"
           /\ ti' = IF kind \in TableReturns THEN ti + 1 ELSE ti
    /\ i' = 0
    /\ successful_batches' = 0
    /\ UNCHANGED <<DB, tables, reports, schema_vars, knex_vars>>

\* whether the target holds a table of the name of table t, with the DDL
\* of migrate_table without its DROP TABLE
target_holds_without_drop(t) ==
    \/ \E k \in 1..Len(log) : log[k] = Ev("create", t, 0, TRUE)
    \/ tables[t].in_target

\* whether the target holds a table of the name of table t: the table that
\* CREATE TABLE made, none once DROP TABLE IF EXISTS succeeded, and before
\* that whatever the target held when the run began
target_holds(t) ==
    \/ \E k \in 1..Len(log) : log[k] = Ev("create", t, 0, TRUE)
    \/ /\ ~ \E k \in 1..Len(log) : log[k] = Ev("drop", t, 0, TRUE)
       /\ tables[t].in_target

BatchOutcomes == {"ok", "executemany_fails", "commit_fails"}

\* the batch loop leaving at the first failing batch (break for continue)
copy_batch_breaks_on_failure(outcome) ==
    /\ pc = "batches"
    /\ i < tables[ti].nrows
    /\ outcome \in BatchOutcomes
    /\ outcome # "ok" => MayFail
    /\ faults' = faults + (IF outcome = "ok" THEN 0 ELSE 1)
    /\ log' = log
         \o << Ev("executemany", ti, i, outcome # "executemany_fails") >>
         \o (IF outcome = "executemany_fails" THEN <<>>
             ELSE << Ev("commit", ti, i, outcome = "ok") >>)
         \o (IF outcome = "ok" THEN <<>> ELSE << Ev("rollback", ti, i, TRUE) >>)
    /\ successful_batches' = successful_batches + (IF outcome = "ok" THEN 1 ELSE 0)
    /\ i' = IF outcome = "ok" THEN i + batch_size ELSE tables[ti].nrows
    /\ UNCHANGED <<pc, DB, tables, ti, reports, schema_vars, knex_vars>>

\* the batch loop counting a batch once its insert ran, before the commit
copy_batch_counts_before_commit(outcome) ==
    /\ pc = "batches"
    /\ i < tables[ti].nrows
    /\ outcome \in BatchOutcomes
    /\ outcome # "ok" => MayFail
    /\ faults' = faults + (IF outcome = "ok" THEN 0 ELSE 1)
    /\ log' = log
         \o << Ev("executemany", ti, i, outcome # "executemany_fails") >>
         \o (IF outcome = "executemany_fails" THEN <<>>
             ELSE << Ev("commit", ti, i, outcome = "ok") >>)
         \o (IF outcome = "ok" THEN <<>> ELSE << Ev("rollback", ti, i, TRUE) >>)
    /\ successful_batches' =
           successful_batches + (IF outcome = "executemany_fails" THEN 0 ELSE 1)
    /\ i' = i + batch_size
    /\ UNCHANGED <<pc, DB, tables, ti, reports, schema_vars, knex_vars>>

\* one iteration of the batch loop of copy_rows
copy_batch(outcome) ==
    /\ pc = "batches"
    /\ i < tables[ti].nrows
    /\ outcome \in BatchOutcomes
    /\ outcome # "ok" => MayFail
    /\ faults' = faults + (IF outcome = "ok" THEN 0 ELSE 1)
    /\ log' = log
         \o << Ev("executemany", ti, i, outcome # "executemany_fails") >>
         \o (IF outcome = "executemany_fails" THEN <<>>
             ELSE << Ev("commit", ti, i, outcome = "ok") >>)
         \o (IF outcome = "ok" THEN <<>> ELSE << Ev("rollback", ti, i, TRUE) >>)
    /\ successful_batches' = successful_batches + (IF outcome = "ok" THEN 1 ELSE 0)
    /\ i' = i + batch_size
    /\ UNCHANGED <<pc, DB, tables, ti, reports, schema_vars, knex_vars>>

\* the batch loop is exhausted: print the report, return to the table loop
finish_copy ==
    /\ pc = "batches"
    /\ i >= tables[ti].nrows
    /\ reports' = Append(reports,
                         <<ti, successful_batches, total_batches(tables[ti].nrows)>>)
    /\ pc' = "tables"
    /\ ti' = ti + 1
    /\ UNCHANGED <<DB, tables, i, successful_batches, log, faults, schema_vars, knex_vars>>

\* the table loop is exhausted: leave the try block
end_of_tables ==
    /\ pc = "tables"
    /\ ti > Len(tables)
    /\ pc' = "finally"
    /\ UNCHANGED <<DB, tables, ti, i, successful_batches, log, reports, faults,
                   schema_vars, knex_vars>>

\* the top-level handler going to the teardown without a rollback
handle_exception_without_rollback ==
    /\ pc = "except"
    /\ pc' = "finally"
    /\ UNCHANGED <<log, DB, tables, ti, i, successful_batches, reports, faults,
                   schema_vars, knex_vars>>

\* except Exception: roll the target transaction back
handle_exception ==
    /\ pc = "except"
    /\ log' = IF DB.mysql_conn # "none"
              THEN Append(log, Ev("top_rollback", 0, 0, TRUE)) ELSE log
    /\ pc' = "finally"
    /\ UNCHANGED <<DB, tables, ti, i, successful_batches, reports, faults,
                   schema_vars, knex_vars>>

TeardownOutcomes == {"ok", "fk_on_fails", "fk_on_commit_fails"}

\* the closes in the order the handles were acquired
CloseOrder_as_acquired ==
    << <<"sqlite_conn", "close_sqlite_conn">>,
       <<"sqlite_cursor", "close_sqlite_cursor">>,
       <<"mysql_conn", "close_mysql_conn">>,
       <<"mysql_cursor", "close_mysql_cursor">> >>

\* the closes of the finally block, in order: <<handle, event>>
CloseOrder ==
    << <<"mysql_cursor", "close_mysql_cursor">>,
       <<"mysql_conn", "close_mysql_conn">>,
       <<"sqlite_cursor", "close_sqlite_cursor">>,
       <<"sqlite_conn", "close_sqlite_conn">> >>

\* the close events of the handles that are set, in the order given
RECURSIVE CloseEvents(_, _)
CloseEvents(order, db) ==
    IF Len(order) = 0 THEN <<>>
    ELSE (IF db[order[1][1]] # "none" THEN << Ev(order[1][2], 0, 0, TRUE) >> ELSE <<>>)
         \o CloseEvents(Tail(order), db)

\* finally: re-enable the foreign key checks, close the handles
teardown(outcome) ==
    /\ pc = "finally"
    /\ outcome \in TeardownOutcomes
    /\ outcome # "ok" => MayFail
    /\ faults' = faults + (IF outcome = "ok" THEN 0 ELSE 1)
    /\ log' = log
         \o (IF DB.mysql_cursor # "none" /\ DB.mysql_conn # "none"
             THEN << Ev("fk_on", 0, 0, outcome # "fk_on_fails") >>
                  \o (IF outcome = "fk_on_fails" THEN <<>>
                      ELSE << Ev("commit", 0, 0, outcome = "ok") >>)
             ELSE <<>>)
         \o CloseEvents(CloseOrder, DB)
    /\ DB' = [h \in DOMAIN DB |-> IF DB[h] # "none" THEN "closed" ELSE DB[h]]
    /\ pc' = "done"
    /\ UNCHANGED <<tables, ti, i, successful_batches, reports, schema_vars, knex_vars>>

Next ==
    \/ \E outcome \in ConnectOutcomes : establish_db_connections(outcome)
    \/ \E ok \in BOOLEAN : list_tables(ok)
    \/ \E outcome \in UNION {MigrateOutcomes(t) : t \in RunTables} : migrate_table(outcome)
    \/ \E outcome \in BatchOutcomes : copy_batch(outcome)
    \/ finish_copy
    \/ end_of_tables
    \/ handle_exception
    \/ \E outcome \in TeardownOutcomes : teardown(outcome)

Spec == Init /\ [][Next]_vars

(***************************************************************************)
(* Properties of the schema translation (checked under SchemaSpec).        *)
(***************************************************************************)

\* the rendered definition of the k-th column, once process_columns ran for it
RenderedDefinition(k) ==
    LET quoted == <<Backtick>> \o s_table.columns[k].name \o <<Backtick>>
    IN  s_ctx.col_defs[CHOOSE j \in 1..Len(s_ctx.col_defs) :
                           StartsWith(s_ctx.col_defs[j], quoted)]

\* the rendered definition of the k-th column starts with its name and type t
RenderedWithType(k, t) ==
    LET head == <<Backtick>> \o s_table.columns[k].name \o <<Backtick, " ">> \o t
        def == RenderedDefinition(k)
    IN  /\ StartsWith(def, head)
        /\ Len(def) > Len(head) => def[Len(head) + 1] = " "

\* the type the mapper gave the k-th column
MappedType(k) ==
    column_mysql_type(s_table.columns[k], s_table.indexes, pk_col_names(s_table.columns))

\* a warning of this kind was printed for the k-th column
Warned(kind, k) ==
    \E w \in 1..Len(s_ctx.warnings) :
        s_ctx.warnings[w] = <<kind, s_table.columns[k].name>>

\* the k-th column is a member of the primary key that the source lets be NULL
NullablePk(k) == s_table.columns[k].pk > 0 /\ s_table.columns[k].notnull = 0

PkMembersInColumnOrder ==
    LET members == {k \in 1..Len(s_table.columns) : s_table.columns[k].pk > 0}
        Nth(n) == CHOOSE k \in members :
                      Cardinality({m \in members : m < k}) = n - 1
    IN  [n \in 1..Cardinality(members) |->
            <<Backtick>> \o s_table.columns[Nth(n)].name \o <<Backtick>>]

\* the number of places at which sub occurs in s
Occurrences(sub, s) ==
    Cardinality({k \in 1..(Len(s) - Len(sub) + 1) :
                    SubSeq(s, k, k + Len(sub) - 1) = sub})

\* C6, as claimed: the CREATE TABLE statement of a table with primary key
\* members holds one PRIMARY KEY clause listing all of them in column order;
\* the statement of a table without primary key members holds none.
C6_AsClaimed ==
    s_pc = "done" =>
        IF Len(PkMembersInColumnOrder) > 0
        THEN /\ Occurrences(S_PRIMARY_KEY, s_stmt) = 1
             /\ Contains(S_PRIMARY_KEY \o Join(S_COMMA_SPACE, PkMembersInColumnOrder)
                            \o <<")">>, s_stmt)
        ELSE Occurrences(S_PRIMARY_KEY, s_stmt) = 0

\* the declared type of the k-th column holds a text keyword
HasTextKeyword(k) ==
    \E key \in {K_CHAR, K_CLOB, K_TEXT} : Contains(key, Upper(s_table.columns[k].type))

\* the k-th column is the one column of a unique index
UniqueColumn(k) == is_unique_col(s_table.columns[k], s_table.indexes)

T_VARCHAR_191 == P_VARCHAR \o <<"1", "9", "1">> \o P_RPAREN

\* C7, as claimed: every processed column whose declared type holds a text
\* keyword and that has a single-column unique index is rendered VARCHAR(191).
C7_AsClaimed ==
    \A k \in 1..s_n :
        HasTextKeyword(k) /\ UniqueColumn(k) =>
            /\ MappedType(k) = T_VARCHAR_191
            /\ RenderedWithType(k, T_VARCHAR_191)

\* C7, amended: every processed column whose declared type holds a text
\* keyword and no INT, and that has a single-column unique index, is mapped
\* to and rendered as VARCHAR(191), whatever length it declares; with INT in
\* the declaration the integer mapping wins.
C7_UniqueTextIsIndexSafe ==
    \A k \in 1..s_n :
        HasTextKeyword(k) /\ UniqueColumn(k) =>
            IF Contains(K_INT, Upper(s_table.columns[k].type))
            THEN MappedType(k) = T_INT_UNSIGNED
            ELSE /\ MappedType(k) = T_VARCHAR_191
                 /\ RenderedWithType(k, T_VARCHAR_191)
                 /\ \A pk_flag \in BOOLEAN :
                        map_sqlite_to_mysql_type(s_table.columns[k].type, pk_flag, TRUE)
                            = T_VARCHAR_191

\* C7 witness: a unique text column declared with a length was rendered
C7_Witness ==
    \E k \in 1..s_n :
        /\ s_table.columns[k].type \in {ST_VARCHAR_50, ST_varchar_300}
        /\ s_table.columns[k].pk = 0
        /\ UniqueColumn(k)
        /\ RenderedWithType(k, T_VARCHAR_191)

\* the specific integer keywords found in the declared type of the k-th column
SpecificIntegerKeywords(k) ==
    {key \in {K_TINYINT, K_SMALLINT, K_MEDIUMINT, K_BIGINT} :
        Contains(key, Upper(s_table.columns[k].type))}

\* the integer type the claim names for the k-th column
NamedIntegerType(k) ==
    IF SpecificIntegerKeywords(k) = {K_TINYINT} THEN K_TINYINT
    ELSE IF SpecificIntegerKeywords(k) = {K_SMALLINT} THEN K_SMALLINT
    ELSE IF SpecificIntegerKeywords(k) = {K_MEDIUMINT} THEN K_MEDIUMINT
    ELSE IF SpecificIntegerKeywords(k) = {K_BIGINT} THEN T_BIGINT_UNSIGNED
    ELSE T_INT_UNSIGNED

\* C8: every processed column whose declared type holds an integer keyword
\* is mapped to the integer type of the most specific keyword present
\* (generic INT: INT UNSIGNED), for all four combinations of the flags.
C8_IntegerMapping ==
    \A k \in 1..s_n :
        /\ Contains(K_INT, Upper(s_table.columns[k].type))
        /\ Cardinality(SpecificIntegerKeywords(k)) <= 1
        => /\ MappedType(k) = NamedIntegerType(k)
           /\ \A pk_flag, unique_flag \in BOOLEAN :
                  map_sqlite_to_mysql_type(s_table.columns[k].type, pk_flag, unique_flag)
                      = NamedIntegerType(k)

\* C8 witness: a BIGINT primary key under a unique index was processed
C8_Witness ==
    \E k \in 1..s_n :
        /\ s_table.columns[k].type = K_BIGINT
        /\ s_table.columns[k].pk = 1
        /\ UniqueColumn(k)
        /\ MappedType(k) = T_BIGINT_UNSIGNED

\* the numeric default literals of the pool with their values, in tenths
NumericDefaultTenths ==
    { <<DV_200, 2000>>, <<DV_m129, -1290>>, <<DV_127, 1270>>, <<DV_m128, -1280>>,
      <<DV_128, 1280>>, <<DV_0, 0>>, <<DV_127_5, 1275>> }

T_SMALLINT_1 == <<"S", "M", "A", "L", "L", "I", "N", "T", "(", "1", ")">>

\* C9: a processed column mapped to TINYINT (or TINYINT(1)) with a numeric
\* default d outside -128..127 is rendered as SMALLINT (SMALLINT(1)) and a
\* promotion warning is printed; with d inside the range the type is kept and
\* nothing is printed; either way the definition carries DEFAULT d with the
\* literal unchanged.
C9_TinyintDefaultWidening ==
    \A k \in 1..s_n : \A nd \in NumericDefaultTenths :
        /\ s_table.columns[k].dflt_value = nd[1]
        /\ MappedType(k) \in {K_TINYINT, T_TINYINT_1}
        => LET outside == nd[2] < -1280 \/ nd[2] > 1270
               wide == IF MappedType(k) = K_TINYINT THEN K_SMALLINT ELSE T_SMALLINT_1
               result == build_default_sql(nd[1], MappedType(k))
           IN  /\ result[1] = S_DEFAULT \o nd[1]
               /\ result[2] = IF outside THEN wide ELSE MappedType(k)
               /\ RenderedWithType(k, IF outside THEN wide ELSE MappedType(k))
               /\ Contains(S_DEFAULT \o nd[1], RenderedDefinition(k))
               /\ Warned("tinyint_promoted", k) <=> outside

\* C9 witness: a TINYINT column with default 200 was rendered as SMALLINT
\* DEFAULT 200
C9_Witness ==
    \E k \in 1..s_n :
        /\ s_table.columns[k].type = K_TINYINT
        /\ s_table.columns[k].dflt_value = DV_200
        /\ RenderedWithType(k, K_SMALLINT)
        /\ Contains(S_DEFAULT \o DV_200, RenderedDefinition(k))

\* the MySQL types of the integer family: the values of INTEGER_TYPES
IntegerFamilyTypes == {INTEGER_TYPES[e][2] : e \in 1..Len(INTEGER_TYPES)}

\* C16, as claimed: a processed column is rendered with AUTO_INCREMENT
\* exactly when it is a member of the primary key and its mapped type is of
\* the integer family (so not when it is mapped to TINYINT(1), DOUBLE,
\* DECIMAL, a text, blob or temporal type), and AUTO_INCREMENT never comes
\* without NOT NULL.
C16_AsClaimed ==
    \A k \in 1..s_n :
        LET auto_increment == Contains(S_AUTO_INCREMENT, RenderedDefinition(k))
        IN  /\ auto_increment <=>
                  /\ s_table.columns[k].pk > 0
                  /\ MappedType(k) \in IntegerFamilyTypes
            /\ auto_increment => Contains(S_NOT_NULL, RenderedDefinition(k))

\* the default takes the string-literal branch of build_default_sql: it is
\* no None, no current-timestamp form, no NULL and no number
StringLiteralDefault(d) ==
    /\ d # None
    /\ LET u == Replace(Upper(d), <<"\"">>, <<"'">>)
       IN  /\ u \notin {D_CURRENT_TIMESTAMP, D_Q_CURRENT_TIMESTAMP, D_NULL, D_Q_NULL}
           /\ ~ Contains(D_DATETIME_NOW, u)
    /\ ~ ParseFloat(d).ok

\* the text without one quote character at its head and one at its end,
\* where there is one
StripOneLayer(text) ==
    LET quotes == {"'", "\""}
        head == IF Len(text) > 0 /\ text[1] \in quotes THEN 2 ELSE 1
        last == IF Len(text) >= head /\ text[Len(text)] \in quotes
                THEN Len(text) - 1 ELSE Len(text)
    IN  SubSeq(text, head, last)

\* C19, as claimed: the default of a processed column that takes the
\* string-literal branch is rendered as DEFAULT '<text>', the text being the
\* default without one layer of surrounding quote characters (quote
\* characters inside that layer kept) and with every single quote doubled.
C19_AsClaimed ==
    \A k \in 1..s_n :
        LET d == s_table.columns[k].dflt_value
            claimed == S_DEFAULT_Q
                           \o Replace(StripOneLayer(d), <<"'">>, <<"'", "'">>)
                           \o <<"'">>
        IN  StringLiteralDefault(d) =>
                /\ build_default_sql(d, MappedType(k))[1] = claimed
                /\ Contains(claimed, RenderedDefinition(k))

(***************************************************************************)
(* Properties of the timestamp conversion (checked under KnexSpec).        *)
(***************************************************************************)

\* the value of the migration_time field of the n-th input row, as digits,
\* when the field is purely numeric
EpochDigits(n) == Canonical(PyStr(k_rows[n][4]))

\* the n-th input row holds a purely numeric, non-zero migration_time and
\* was converted
ConvertedEpoch(n) ==
    /\ n <= Len(k_processed)
    /\ IsEpochField(k_rows[n])
    /\ EpochDigits(n) # <<"0">>

\* rows a and b hold the same instant, a in seconds and b in milliseconds
SameInstant(a, b) ==
    /\ ConvertedEpoch(a)
    /\ ConvertedEpoch(b)
    /\ EpochDigits(b) = EpochDigits(a) \o <<"0", "0", "0">>

SecondsInRange(digits) ==
    /\ DigitsGreater(digits, MT_4000000)
    /\ ~ DigitsGreater(digits, KNEX_MS_THRESHOLD)

ConversionFails(row, utc_offset) ==
    /\ IsEpochField(row)
    /\ \/ ~ IntParses(PyStr(row[4]))
       \/ FromTimestamp(timestamp_val(row[4]), utc_offset).err # "none"

\* C11, as claimed: no failure of the conversion of a numeric timestamp field
\* leaves knex_timestamp_conversion as an exception, and every row whose
\* conversion failed stays in the list with that field set to NULL.
C11_AsClaimed ==
    /\ k_pc # "raised"
    /\ \A n \in 1..Len(k_processed) :
          ConversionFails(k_rows[n], k_tz) =>
              k_processed[n] = [k_rows[n] EXCEPT ![4] = NoneValue]

(***************************************************************************)
(* Properties of the run (checked under Spec).                             *)
(***************************************************************************)

\* the positions of the log holding the call op on table t
Calls(op, t) == {k \in 1..Len(log) : log[k][1] = op /\ log[k][2] = t}

\* the call op was made on table t
Called(op, t) == \E k \in 1..Len(log) : log[k][1] = op /\ log[k][2] = t

\* the call op on table t failed
Failed(op, t) ==
    \E k \in 1..Len(log) : log[k][1] = op /\ log[k][2] = t /\ ~ log[k][4]

\* the call op on table t succeeded
Succeeded(op, t) ==
    \E k \in 1..Len(log) : log[k][1] = op /\ log[k][2] = t /\ log[k][4]

\* the offsets of the batches of table t handed to the bulk insert
AttemptedOffsets(t) == {log[k][3] : k \in Calls("executemany", t)}

\* the offsets of the batches of table t whose insert and commit succeeded
CommittedOffsets(t) ==
    {o \in AttemptedOffsets(t) :
        /\ \E k \in 1..Len(log) : log[k] = Ev("executemany", t, o, TRUE)
        /\ \E k \in 1..Len(log) : log[k] = Ev("commit", t, o, TRUE)}

\* the offsets of the batches of table t that were rolled back
RolledBackOffsets(t) == {log[k][3] : k \in Calls("rollback", t)}

\* ceil(n / d): the least number of parts of size d that hold n
CeilDiv(n, d) ==
    CHOOSE q \in 0..((n \div d) + 1) : q * d >= n /\ (q - 1) * d < n

\* the offsets of the first n batches
BatchOffsets(n) == {batch_size * (b - 1) : b \in 1..n}

\* C2: in copy_rows every batch is handed to the bulk insert, in order, a
\* failing batch or not: while the loop stands at offset i the batches
\* attempted are exactly those below i.  A batch whose insert or commit failed
\* is rolled back, the others are committed.  The report states
\* total_batches = ceil(N / 1000) and successful_batches = the number of
\* batches whose insert and commit did not fail, so total_batches - 1 when
\* exactly one batch failed.
C2_BatchFailureIsSkipped ==
    /\ pc = "batches" =>
          LET attempted == AttemptedOffsets(ti)
          IN  /\ attempted = {o \in BatchOffsets(CeilDiv(tables[ti].nrows, 1000)) : o < i}
              /\ Cardinality(Calls("executemany", ti)) = Cardinality(attempted)
              /\ successful_batches = Cardinality(CommittedOffsets(ti))
    /\ \A r \in 1..Len(reports) :
          LET t == reports[r][1]
              successful == reports[r][2]
              total == reports[r][3]
              attempted == AttemptedOffsets(t)
              committed == CommittedOffsets(t)
          IN  /\ total = CeilDiv(tables[t].nrows, 1000)
              /\ attempted = BatchOffsets(total)
              /\ Cardinality(Calls("executemany", t)) = total
              /\ RolledBackOffsets(t) = attempted \ committed
              /\ successful = Cardinality(committed)
              /\ Cardinality(attempted \ committed) = 1 => successful = total - 1

\* C2 witness: a table was reported whose first batch failed in the insert
\* and was rolled back, and whose later batch was committed
C2_Witness ==
    \E r \in 1..Len(reports) :
        LET t == reports[r][1]
        IN  /\ reports[r][3] >= 2
            /\ reports[r][2] = reports[r][3] - 1
            /\ \E k \in Calls("executemany", t) : log[k][3] = 0 /\ ~ log[k][4]
            /\ 0 \in RolledBackOffsets(t)
            /\ batch_size \in CommittedOffsets(t)

\* the last n entries of the log
LastOfLog(n) == SubSeq(log, Len(log) - n + 1, Len(log))

\* C3: a run that opened both connections and has ended went through the
\* teardown: the re-enabling of the foreign key checks was attempted once,
\* after every other statement, and the four handles are closed, the closes
\* being the last four calls, in the order target cursor, target connection,
\* source cursor, source connection.  The run ends nowhere else: until it has
\* ended a next step exists.
C3_TeardownOnEveryRoute ==
    /\ pc = "done" =>
          /\ \A h \in DOMAIN DB : DB[h] = "closed"
          /\ Len(log) >= 5
          /\ LastOfLog(4) = << Ev("close_mysql_cursor", 0, 0, TRUE),
                               Ev("close_mysql_conn", 0, 0, TRUE),
                               Ev("close_sqlite_cursor", 0, 0, TRUE),
                               Ev("close_sqlite_conn", 0, 0, TRUE) >>
          /\ Cardinality(Calls("fk_on", 0)) = 1
          /\ \A f \in Calls("fk_on", 0) : \A k \in (f + 1)..(Len(log) - 4) :
                 log[k][1] = "commit" /\ log[k][2] = 0 /\ k = f + 1
    /\ pc \in {"connected", "tables", "batches", "except", "finally"} =>
          /\ \A h \in DOMAIN DB : DB[h] = "open"
          /\ ENABLED Next

\* C3 witness: a run ended after an unexpected error and a failing
\* re-enabling statement, with all four handles closed
C3_Witness ==
    /\ pc = "done"
    /\ Called("top_rollback", 0)
    /\ Failed("fk_on", 0)
    /\ \A h \in DOMAIN DB : DB[h] = "closed"

\* the drop/create DDL of table t failed
DdlFailed(t) == Failed("drop", t) \/ Failed("create", t)

\* C4: when the DDL of a table failed, no row SELECT, no column query of
\* copy_rows and no insert is issued for that table, and the failure does not
\* end the table loop: the next table of the catalog is the one migrate_table
\* is invoked for next.
C4_DdlFailureIsTableFatalOnly ==
    \A t \in 1..Len(tables) :
        DdlFailed(t) =>
            /\ ~ Called("select", t)
            /\ ~ Called("copy_table_info", t)
            /\ ~ Called("executemany", t)
            /\ ~ Called("top_rollback", 0) \/ Called("migrate_table", t + 1)
            /\ t < Len(tables) =>
                  \/ pc = "tables" /\ ti = t + 1
                  \/ Called("migrate_table", t + 1)

\* C4 witness: the CREATE TABLE of the first table failed and rows of the
\* second table were inserted
C4_Witness ==
    /\ Failed("create", 1)
    /\ Called("migrate_table", 2)
    /\ Succeeded("executemany", 2)

\* the calls of migrate_table whose failure the function does not catch
UncaughtCalls == {"table_info", "index_list", "index_info", "select",
                  "copy_table_info", "knex"}

\* an error that migrate_table does not catch was raised for table t
RaisedIn(t) == \E op \in UncaughtCalls : Failed(op, t)

\* C5, as claimed: once the tables are enumerated, whatever error is raised
\* while a table is migrated, migrate_table is invoked for every table.
C5_AsClaimed ==
    pc = "done" /\ Succeeded("list_tables", 0) =>
        \A t \in 1..Len(tables) : Called("migrate_table", t)

\* C5, amended: DDL failures and batch failures never stop the run: when no
\* other error was raised, a run that has ended invoked migrate_table for
\* every enumerated table and attempted every batch of every table whose DDL
\* succeeded and whose rows were read.  Any other error raised while a table
\* is migrated is handled at the top level and ends the table loop: no later
\* table is invoked.
C5_OnlyUncaughtErrorsStopTheRun ==
    /\ pc = "done" /\ Succeeded("list_tables", 0) /\ ~ Called("top_rollback", 0) =>
          \A t \in 1..Len(tables) :
              /\ Called("migrate_table", t)
              /\ Succeeded("select", t) =>
                    AttemptedOffsets(t) = BatchOffsets(CeilDiv(tables[t].nrows, 1000))
    /\ \A t \in 1..Len(tables) :
          RaisedIn(t) =>
              /\ pc \in {"except", "finally", "done"}
              /\ pc # "except" => Called("top_rollback", 0)
              /\ \A u \in (t + 1)..Len(tables) : ~ Called("migrate_table", u)

\* C5 witness: a run ended in which a batch of the first table failed, every
\* batch of the first table was attempted, and the second table was invoked
C5_Witness ==
    /\ pc = "done"
    /\ Len(tables) = 2
    /\ Failed("executemany", 1)
    /\ AttemptedOffsets(1) = BatchOffsets(MaxBatches)
    /\ Called("migrate_table", 2)

\* the calls that toggle the integrity checks, enumerate, or write the target
WorkCalls == {"fk_off", "fk_on", "commit", "list_tables", "migrate_table",
              "drop", "create", "select", "executemany"}

\* C12, as claimed: when a connection or its cursor could not be opened the
\* run is aborted with every handle that had been opened closed, and with no
\* integrity toggle, no enumeration, no DDL and no insert issued.
C12_AsClaimed ==
    pc = "exited" =>
        /\ \A h \in DOMAIN DB : DB[h] # "open"
        /\ \A k \in 1..Len(log) : log[k][1] \notin WorkCalls

\* the table name stands quoted in every source query and escaped in every
\* target statement sent for the table
IdentifiersEscaped(table) ==
    /\ IsQuoted(PragmaArgument(table_info_query(table.name)))
    /\ IsQuoted(PragmaArgument(index_list_query(table.name)))
    /\ \A k \in 1..Len(table.indexes) :
          IsQuoted(PragmaArgument(index_info_query(table.indexes[k].name)))
    /\ IsQuoted(SelectSource(select_query(table.name)))
    /\ Contains(escaped_table_name(table.name), drop_stmt(table.name))
    /\ Contains(escaped_table_name(table.name),
                insert_stmt(table.name, [k \in 1..Len(table.columns) |->
                                            table.columns[k].name]))

\* C13, as claimed: a table named by a reserved word is migrated like any
\* other table: its name is escaped in every statement, and on stores that
\* work (no call failed by a fault) none of its source queries fails.
C13_AsClaimed ==
    \A t \in 1..Len(tables) :
        Lower(tables[t].name) \in SqliteKeywords /\ Called("migrate_table", t) =>
            /\ IdentifiersEscaped(tables[t])
            /\ faults = 0 => \A op \in UncaughtCalls : ~ Failed(op, t)

\* C14, as claimed: after a DDL failure of a table, the failing statement
\* being the DROP or the CREATE, the target holds no table of that name.
C14_AsClaimed ==
    \A t \in 1..Len(tables) : DdlFailed(t) => ~ target_holds(t)

\* C14, amended: when CREATE TABLE failed, the DROP before it succeeded and
\* the target holds no table of that name, old or new.  When DROP TABLE
\* failed, CREATE TABLE was not sent and the target is as it was before the
\* run: a table of that name left by an earlier run remains.
C14_AbsentAfterCreateFailure ==
    \A t \in 1..Len(tables) :
        /\ Failed("create", t) => Succeeded("drop", t) /\ ~ target_holds(t)
        /\ Failed("drop", t) =>
              /\ ~ Called("create", t)
              /\ target_holds(t) = tables[t].in_target

\* C14 witness: the target held the table before the run, its CREATE TABLE
\* failed, and the target holds it no more
C14_Witness ==
    \E t \in 1..Len(tables) :
        /\ tables[t].in_target
        /\ Failed("create", t)
        /\ ~ target_holds(t)

\* the calls of the teardown
TeardownCalls == {"fk_on", "close_mysql_cursor", "close_mysql_conn",
                  "close_sqlite_cursor", "close_sqlite_conn"}

\* the log entry is a call whose error only the top-level handler catches
IsUncaughtFailure(e) == e[1] \in UncaughtCalls \cup {"list_tables"} /\ ~ e[4]

\* C15: an error that only the top-level handler catches, raised by the
\* enumeration or while a table is migrated, is followed at once by the
\* rollback of the target transaction; the rollback comes before every call
\* of the teardown (no handle is closed and the integrity checks are not yet
\* re-enabled), and the teardown begins right after it.
C15_RollbackBeforeTeardown ==
    \A k \in 1..Len(log) :
        /\ IsUncaughtFailure(log[k]) =>
              IF k = Len(log) THEN pc = "except"
              ELSE log[k + 1][1] = "top_rollback"
        /\ log[k][1] = "top_rollback" =>
              /\ k > 1 /\ IsUncaughtFailure(log[k - 1])
              /\ \A j \in 1..(k - 1) : log[j][1] \notin TeardownCalls
              /\ IF k = Len(log) THEN pc = "finally" /\ \A h \in DOMAIN DB : DB[h] = "open"
                 ELSE log[k + 1][1] = "fk_on"

\* C15 witness: the timestamp conversion raised, the rollback followed, then
\* the re-enabling statement, and the run ended with the handles closed
C15_Witness ==
    /\ pc = "done"
    /\ \E k \in 1..(Len(log) - 2) :
          /\ log[k][1] = "knex" /\ ~ log[k][4]
          /\ log[k + 1][1] = "top_rollback"
          /\ log[k + 2][1] = "fk_on"
    /\ \A h \in DOMAIN DB : DB[h] = "closed"

\* the bulk inserts of table t, in the order they were made
BulkInserts(t) ==
    SelectSeq(log, LAMBDA e : e[1] = "executemany" /\ e[2] = t)

\* C17: once the batch loop of a table of N rows has ended, the slices handed
\* to the bulk insert, in call order, tile the rows: there are ceil(N / 1000)
\* of them, the first begins at the first row, each begins where the one
\* before ended, the last ends at row N, each holds 1000 rows except the last,
\* which holds at least one; so every row is in exactly one batch and every
\* batch was handed over once.  For a table without rows no insert and no
\* commit is issued.
C17_BatchesTileTheRows ==
    /\ \A r \in 1..Len(reports) :
          LET t == reports[r][1]
              N == tables[t].nrows
              calls == BulkInserts(t)
              n == Len(calls)
              slice(j) == batch(N, calls[j][3])
          IN  /\ N > 0
              /\ n = CeilDiv(N, 1000)
              /\ slice(1)[1] = 1
              /\ slice(n)[2] = N
              /\ \A j \in 1..n :
                    /\ slice(j)[1] <= slice(j)[2]
                    /\ slice(j)[2] - slice(j)[1] + 1 <= 1000
                    /\ j < n => /\ slice(j)[2] - slice(j)[1] + 1 = 1000
                                /\ slice(j + 1)[1] = slice(j)[2] + 1
    /\ \A k \in 1..Len(log) :
          log[k][1] \in {"executemany", "commit"} /\ log[k][2] > 0 =>
              tables[log[k][2]].nrows > 0

\* C17 witness: a table of more than 1000 rows was copied whose last batch
\* holds a single row, and a table without rows was read and left alone
C17_Witness ==
    /\ \E r \in 1..Len(reports) :
          LET t == reports[r][1]
              calls == BulkInserts(t)
          IN  /\ Len(calls) >= 2
              /\ batch(tables[t].nrows, calls[Len(calls)][3])
                    = << tables[t].nrows, tables[t].nrows >>
    /\ \E t \in 1..Len(tables) :
          tables[t].nrows = 0 /\ Succeeded("select", t)

\* the statements that change the target: DDL and bulk inserts
TargetWrites == {"drop", "create", "executemany"}

\* C18: every DROP TABLE, CREATE TABLE and bulk insert of a run comes after
\* the statement that disables the foreign key checks, which is the first
\* call on the stores, and before the statement that re-enables them.  When
\* the disabling statement (or its commit) failed, the run is not aborted:
\* the handles stay open and the enumeration of the tables is the next step.
C18_WritesBetweenTheToggles ==
    /\ \A k \in 1..Len(log) :
          /\ log[k][1] \in TargetWrites =>
                /\ log[1][1] = "fk_off"
                /\ \A j \in 1..k : log[j][1] # "fk_on"
          /\ log[k][1] = "fk_off" => k = 1
    /\ Len(log) > 0 /\ log[1][1] = "fk_off" =>
          /\ pc # "exited"
          /\ pc = "connected" =>
                /\ \A h \in DOMAIN DB : DB[h] = "open"
                /\ ENABLED list_tables(TRUE)

\* C18 witness: the disabling statement failed, a table was created and
\* filled all the same, and the re-enabling statement came last of the three
C18_Witness ==
    /\ Failed("fk_off", 0)
    /\ \E c, e, f \in 1..Len(log) :
          /\ log[c] = Ev("create", 1, 0, TRUE)
          /\ log[e] = Ev("executemany", 1, 0, TRUE)
          /\ log[f][1] = "fk_on"
          /\ c < e /\ e < f
=============================================================================
